---------------------------- MODULE Spec2Model ----------------------------
(***************************************************************************)
(* A model of the keyword clustering tool of google-ads-mcp               *)
(* (src/src/tools/get_keyword_clusters.ts) and of the two collaborators   *)
(* it awaits (src/src/lib/gsc.ts, src/src/lib/googleAutocomplete.ts).     *)
(*                                                                         *)
(* Strings are sequences of one-character strings, so that normalize,     *)
(* tokenize, split and levenshteinNorm are computed and not assumed.      *)
(* JavaScript numbers that are fractions (ctr, position, averages) are    *)
(* exact rationals [n, d] in lowest terms with d > 0.                     *)
(***************************************************************************)
EXTENDS Integers, Sequences, FiniteSets, TLC

(***************************************************************************)
(* Generic helpers on sequences.                                           *)
(***************************************************************************)
(* e, with v evaluated first: JavaScript evaluates an argument, and the
   right side of an assignment, before it goes on *)
Strict(v, e) == IF v = v THEN e ELSE e

Range(s) == {s[i] : i \in 1..Len(s)}

Contains(s, x) == \E i \in 1..Len(s) : s[i] = x

RECURSIVE SelectChars(_, _)
SelectChars(s, keep) ==
    IF s = <<>> THEN <<>>
    ELSE IF Head(s) \in keep THEN <<Head(s)>> \o SelectChars(Tail(s), keep)
    ELSE SelectChars(Tail(s), keep)

(* Array.prototype.slice(0, n) for n >= 0 *)
Slice0(s, n) == IF n >= Len(s) THEN s ELSE SubSeq(s, 1, n)

Abs(x) == IF x < 0 THEN -x ELSE x

Min2(a, b) == IF a <= b THEN a ELSE b

Max2(a, b) == IF a >= b THEN a ELSE b

RECURSIVE GCD(_, _)
GCD(a, b) == IF b = 0 THEN a ELSE GCD(b, a % b)

(***************************************************************************)
(* Exact rationals: the model of a JavaScript number that is a fraction.   *)
(***************************************************************************)
Rat(n, d) ==
    LET g == GCD(Abs(n), d)
    IN  IF n = 0 THEN [n |-> 0, d |-> 1] ELSE [n |-> n \div g, d |-> d \div g]

RInt(k) == [n |-> k, d |-> 1]

RAdd(x, y) == Rat(x.n * y.d + y.n * x.d, x.d * y.d)

RSub(x, y) == Rat(x.n * y.d - y.n * x.d, x.d * y.d)

RMulInt(x, k) == Rat(x.n * k, x.d)

RDivInt(x, k) == Rat(x.n, x.d * k)

RLess(x, y) == x.n * y.d < y.n * x.d

RLeq(x, y) == x.n * y.d <= y.n * x.d

RECURSIVE RSum(_)
RSum(s) == IF s = <<>> THEN RInt(0) ELSE RAdd(Head(s), RSum(Tail(s)))

(***************************************************************************)
(* Characters.                                                             *)
(***************************************************************************)
UpperChars ==
    <<"A", "B", "C", "D", "E", "F", "G", "H", "I", "J", "K", "L", "M",
      "N", "O", "P", "Q", "R", "S", "T", "U", "V", "W", "X", "Y", "Z">>

LowerChars ==
    <<"a", "b", "c", "d", "e", "f", "g", "h", "i", "j", "k", "l", "m",
      "n", "o", "p", "q", "r", "s", "t", "u", "v", "w", "x", "y", "z">>

DigitChars == {"0", "1", "2", "3", "4", "5", "6", "7", "8", "9"}

(* the characters of the pools that the regular expression \s matches *)
SpaceChars == {" ", "\t"}

(* String.prototype.toLowerCase, one character *)
ToLowerChar(c) ==
    IF \E i \in 1..26 : UpperChars[i] = c
    THEN LowerChars[CHOOSE i \in 1..26 : UpperChars[i] = c]
    ELSE c

ToLowerCase(s) == [i \in 1..Len(s) |-> ToLowerChar(s[i])]

(* the complement of the class [^a-z0-9\s\-] *)
KeptChars == Range(LowerChars) \cup DigitChars \cup SpaceChars \cup {"-"}

(* .replace(/\s+/g, ' ') : every maximal run of white space becomes one space *)
RECURSIVE CollapseSpaces(_)
CollapseSpaces(s) ==
    IF s = <<>> THEN <<>>
    ELSE IF Head(s) \in SpaceChars
         THEN IF Len(s) > 1 /\ s[2] \in SpaceChars
              THEN CollapseSpaces(Tail(s))
              ELSE <<" ">> \o CollapseSpaces(Tail(s))
         ELSE <<Head(s)>> \o CollapseSpaces(Tail(s))

RECURSIVE TrimStart(_)
TrimStart(s) ==
    IF s # <<>> /\ Head(s) \in SpaceChars THEN TrimStart(Tail(s)) ELSE s

RECURSIVE TrimEnd(_)
TrimEnd(s) ==
    IF s # <<>> /\ s[Len(s)] \in SpaceChars
    THEN TrimEnd(SubSeq(s, 1, Len(s) - 1))
    ELSE s

Trim(s) == TrimEnd(TrimStart(s))

(* the three replacements without the final trim *)
normalize_NoTrim(value) ==
    CollapseSpaces(SelectChars(ToLowerCase(value), KeptChars))

normalize(value) ==
    Trim(CollapseSpaces(SelectChars(ToLowerCase(value), KeptChars)))

(* String.prototype.split(' '): the pieces between single spaces, the empty
   string giving one empty piece *)
RECURSIVE SplitOnSpace(_, _)
SplitOnSpace(s, cur) ==
    IF s = <<>> THEN <<cur>>
    ELSE IF Head(s) = " " THEN <<cur>> \o SplitOnSpace(Tail(s), <<>>)
    ELSE LET next == Append(cur, Head(s))
         IN  Strict(next, SplitOnSpace(Tail(s), next))

Split(s) == SplitOnSpace(s, <<>>)

stopwords ==
    { <<"t", "h", "e">>, <<"a", "n", "d">>, <<"f", "o", "r">>, <<"a">>,
      <<"o", "f">>, <<"t", "o">>, <<"i", "n">>, <<"o", "n">>, <<"i", "s">>,
      <<"w", "i", "t", "h">>, <<"b", "y">>, <<"f", "r", "o", "m">>,
      <<"a", "t">>, <<"h", "o", "w">>, <<"w", "h", "a", "t">>,
      <<"w", "h", "y">>, <<"w", "h", "e", "n">>,
      <<"w", "h", "e", "r", "e">>, <<"w", "h", "i", "c", "h">>,
      <<"a", "n">>, <<"o", "r">> }

(* a filter on the token length alone *)
tokenize_KeepsStopwords(value) ==
    SelectSeq(Split(normalize(value)), LAMBDA token : Len(token) > 1)

tokenize(value) ==
    SelectSeq(Split(normalize(value)),
              LAMBDA token : Len(token) > 1 /\ token \notin stopwords)

(* the intersection divided by the size of the first set *)
jaccard_OverFirst(a, b) ==
    LET A == Range(a)
        B == Range(b)
        intersection == Cardinality(A \cap B)
    IN  IF intersection = 0 THEN RInt(0) ELSE Rat(intersection, Cardinality(A))

(* jaccard(new Set(a), new Set(b)) on two token arrays *)
jaccard(a, b) ==
    LET A == Range(a)
        B == Range(b)
        intersection == Cardinality(A \cap B)
    IN  IF intersection = 0 THEN RInt(0)
        ELSE Rat(intersection, Cardinality(A) + Cardinality(B) - intersection)

(* one row of the dynamic-programming matrix from the row above it *)
RECURSIVE LevRow(_, _, _, _, _)
LevRow(prev, ch, b, j, acc) ==
    IF j > Len(b) THEN acc
    ELSE LET cost == IF ch = b[j] THEN 0 ELSE 1
             cell == Min2(Min2(prev[j + 1] + 1, acc[j] + 1), prev[j] + cost)
             next == Append(acc, cell)
         IN  Strict(next, LevRow(prev, ch, b, j + 1, next))

RECURSIVE LevRows(_, _, _, _)
LevRows(a, b, i, prev) ==
    IF i > Len(a) THEN prev
    ELSE LET row == LevRow(prev, a[i], b, 1, <<i>>)
         IN  Strict(row, LevRows(a, b, i + 1, row))

levenshteinNorm(a, b) ==
    LET m == Len(a)
        n == Len(b)
    IN  IF m = 0 /\ n = 0 THEN RInt(0)
        ELSE Rat(LevRows(a, b, 1, [j \in 1..(n + 1) |-> j - 1])[n + 1],
                 Max2(m, n))

avg(values) ==
    IF Len(values) = 0 THEN RInt(0) ELSE RDivInt(RSum(values), Len(values))

(***************************************************************************)
(* Natural numbers beyond 32 bits, as little-endian sequences of digits    *)
(* in base 10000: the exact value of a sum of fractions is needed to       *)
(* decide how Math.round rounds it.                                        *)
(***************************************************************************)
BigBase == 10 ^ 4

RECURSIVE BigNat(_)
BigNat(k) == IF k < BigBase THEN <<k>> ELSE <<k % BigBase>> \o BigNat(k \div BigBase)

RECURSIVE BigAddC(_, _, _)
BigAddC(a, b, carry) ==
    IF a = <<>> /\ b = <<>> THEN (IF carry = 0 THEN <<>> ELSE <<carry>>)
    ELSE LET x == IF a = <<>> THEN 0 ELSE Head(a)
             y == IF b = <<>> THEN 0 ELSE Head(b)
             t == x + y + carry
         IN  <<t % BigBase>>
             \o BigAddC(IF a = <<>> THEN a ELSE Tail(a),
                        IF b = <<>> THEN b ELSE Tail(b), t \div BigBase)

BigAdd(a, b) == BigAddC(a, b, 0)

RECURSIVE BigScale(_, _, _)
BigScale(a, digit, carry) ==
    IF a = <<>> THEN (IF carry = 0 THEN <<>> ELSE <<carry>>)
    ELSE LET t == Head(a) * digit + carry
         IN  <<t % BigBase>> \o BigScale(Tail(a), digit, t \div BigBase)

RECURSIVE BigMul(_, _)
BigMul(a, b) ==
    IF a = <<>> THEN <<>>
    ELSE BigAdd(BigScale(b, Head(a), 0), <<0>> \o BigMul(Tail(a), b))

RECURSIVE BigStrip(_)
BigStrip(a) ==
    IF a # <<>> /\ a[Len(a)] = 0 THEN BigStrip(SubSeq(a, 1, Len(a) - 1)) ELSE a

RECURSIVE BigLeqAt(_, _, _)
BigLeqAt(a, b, i) ==
    IF i = 0 THEN TRUE
    ELSE IF a[i] # b[i] THEN a[i] < b[i]
    ELSE BigLeqAt(a, b, i - 1)

BigLeq(a, b) ==
    LET x == BigStrip(a)
        y == BigStrip(b)
    IN  IF Len(x) # Len(y) THEN Len(x) < Len(y) ELSE BigLeqAt(x, y, Len(x))

(* the product of the denominators of ts, leaving out the one at index skip *)
RECURSIVE DenProduct(_, _, _)
DenProduct(ts, i, skip) ==
    IF i > Len(ts) THEN <<1>>
    ELSE IF i = skip THEN DenProduct(ts, i + 1, skip)
    ELSE BigMul(BigNat(ts[i].d), DenProduct(ts, i + 1, skip))

(* the numerator, over the product of all denominators, of the sum of the
   fractional parts of ts *)
RECURSIVE FracNumerator(_, _)
FracNumerator(ts, i) ==
    IF i > Len(ts) THEN <<>>
    ELSE BigAdd(BigMul(BigNat(ts[i].n % ts[i].d), DenProduct(ts, 1, i)),
                FracNumerator(ts, i + 1))

RECURSIVE WholeParts(_)
WholeParts(ts) ==
    IF ts = <<>> THEN 0 ELSE (Head(ts).n \div Head(ts).d) + WholeParts(Tail(ts))

(* Math.round of the exact sum of the non-negative rationals ts: the whole
   parts, plus the number of half-odd thresholds (2j - 1)/2 that the sum of
   the fractional parts reaches (Math.round rounds a tie upwards) *)
RoundSum(ts) ==
    LET D  == DenProduct(ts, 1, 0)
        N2 == BigScale(FracNumerator(ts, 1), 2, 0)
    IN  WholeParts(ts)
        + Cardinality({j \in 1..Len(ts) : BigLeq(BigScale(D, 2 * j - 1, 0), N2)})

(***************************************************************************)
(* The data the collaborators can deliver.                                 *)
(*                                                                         *)
(* A GscRow is what mapRows builds: every field is present, query is not   *)
(* empty, page is '' when the API row has no second key.                   *)
(***************************************************************************)
Row(query, page, clicks, impressions, ctr, position) ==
    [query |-> query, page |-> page, clicks |-> clicks,
     impressions |-> impressions, ctr |-> ctr, position |-> position]

(* "Ab  Cd", "ab cd!", "ab cd ef", "?!", "xy", "ab gh": two spellings of one
   keyword, a keyword one token away from it, a query that normalizes to '',
   an unrelated keyword, and a keyword that only "ab cd gh" resembles, so
   that "ab cd ef" - "ab cd" - "ab cd gh" - "ab gh" is a chain of four *)
RowPool ==
    { Row(<<"A", "b", " ", " ", "C", "d">>, "", 2, 1000, Rat(0, 1), Rat(20, 1)),
      Row(<<"a", "b", " ", "c", "d", "!">>, "/p2", 30, 3000, Rat(1, 100), Rat(12, 1)),
      Row(<<"a", "b", " ", "c", "d", " ", "e", "f">>, "/p1", 5, 100, Rat(1, 20), Rat(31, 5)),
      Row(<<"?", "!">>, "/p1", 1, 10, Rat(1, 10), Rat(1, 1)),
      Row(<<"x", "y">>, "/p2", 0, 110, Rat(0, 1), Rat(40, 1)),
      Row(<<"a", "b", " ", "g", "h">>, "", 0, 22, Rat(0, 1), Rat(40, 1)) }

(* "AB cd gh", "ab<TAB>cd" *)
SeedPool ==
    { <<"A", "B", " ", "c", "d", " ", "g", "h">>,
      <<"a", "b", "\t", "c", "d">> }

(* the seed query of an invocation: absent (''), or "ab" *)
QueryPool == { <<>>, <<"a", "b">> }

(* rows for the aggregation of a cluster: "aa bb cc dd" and "bb cc dd ee"
   share three of five tokens and so are linked; two rows of the second
   keyword on two pages; "how to xy" and "a xy" have the one token "xy" and
   no page; "xy zz" stands alone.  Positions 5 and 15 and CTR 0.02 are the
   thresholds of the recommendations. *)
DetailRowPool ==
    { Row(<<"a", "a", " ", "b", "b", " ", "c", "c", " ", "d", "d">>, "/p1", 5, 100, Rat(1, 20), Rat(31, 5)),
      Row(<<"b", "b", " ", "c", "c", " ", "d", "d", " ", "e", "e">>, "/p2", 30, 100, Rat(1, 50), Rat(5, 1)),
      Row(<<"B", "B", " ", "c", "c", " ", "d", "d", " ", "e", "e", "!">>, "/p3", 0, 50, Rat(0, 1), Rat(4, 1)),
      Row(<<"h", "o", "w", " ", "t", "o", " ", "x", "y">>, "", 0, 10, Rat(0, 1), Rat(16, 1)),
      Row(<<"a", " ", "x", "y">>, "", 0, 10, Rat(1, 100), Rat(3, 1)),
      Row(<<"x", "y", " ", "z", "z">>, "", 1, 10, Rat(1, 10), Rat(15, 1)) }

(* what fetchAutocomplete delivers there: nothing, or "buy solar panels"
   with "buy solar panel", or "weather forecast" with "solar panel cost" *)
DetailSeedLists ==
    { <<>>,
      << <<"b", "u", "y", " ", "s", "o", "l", "a", "r", " ", "p", "a", "n", "e", "l", "s">>,
         <<"b", "u", "y", " ", "s", "o", "l", "a", "r", " ", "p", "a", "n", "e", "l">> >>,
      << <<"w", "e", "a", "t", "h", "e", "r", " ", "f", "o", "r", "e", "c", "a", "s", "t">>,
         <<"s", "o", "l", "a", "r", " ", "p", "a", "n", "e", "l", " ", "c", "o", "s", "t">> >> }

MaxRows == 3

MaxKeywords == 4

(* the sequences without repetition, of at most n elements of S *)
RECURSIVE DistinctSeqs(_, _)
DistinctSeqs(S, n) ==
    IF n = 0 THEN {<<>>}
    ELSE LET shorter == DistinctSeqs(S, n - 1)
         IN  shorter \cup
             {Append(q, x) : <<q, x>> \in
                 {t \in shorter \X S : t[2] \notin Range(t[1])}}

(***************************************************************************)
(* getKeywordClusters: the keyword map (a Map, so a sequence of entries    *)
(* [key, value] in insertion order; a Set is a sequence without            *)
(* repetition in insertion order).                                         *)
(***************************************************************************)
toKeywordMetrics(row) ==
    LET keyword == normalize(row.query)
    IN  [keyword |-> keyword,
         tokens |-> tokenize(keyword),
         pages |-> IF row.page # "" THEN <<row.page>> ELSE <<>>,
         clicks |-> row.clicks,
         impressions |-> row.impressions,
         ctrs |-> IF row.ctr # RInt(0) THEN <<row.ctr>> ELSE <<>>,
         positions |-> <<row.position>>]

MapHas(map, key) == \E i \in 1..Len(map) : map[i].key = key

MapIndex(map, key) == CHOOSE i \in 1..Len(map) : map[i].key = key

MapGet(map, key) == map[MapIndex(map, key)].value

MapKeys(map) == [i \in 1..Len(map) |-> map[i].key]

SetAdd(s, x) == IF Contains(s, x) THEN s ELSE Append(s, x)

(* one iteration of the loop over gscRows *)
MergeRow(map, row) ==
    LET normalized == normalize(row.query)
    IN  IF normalized = <<>> THEN map
        ELSE IF MapHas(map, normalized)
        THEN LET i == MapIndex(map, normalized)
                 existing == map[i].value
             IN  [map EXCEPT ![i].value =
                    [existing EXCEPT
                       !.clicks = @ + row.clicks,
                       !.impressions = @ + row.impressions,
                       !.ctrs = Append(@, row.ctr),
                       !.positions = Append(@, row.position),
                       !.pages = IF row.page # "" THEN SetAdd(@, row.page) ELSE @]]
        ELSE Append(map, [key |-> normalized, value |-> toKeywordMetrics(row)])

RECURSIVE MergeRows(_, _)
MergeRows(map, rows) ==
    IF rows = <<>> THEN map
    ELSE LET next == MergeRow(map, Head(rows))
         IN  Strict(next, MergeRows(next, Tail(rows)))

(* an iteration without the keywordMap.has test: set replaces the value *)
MergeSeed_Overwrite(map, seed) ==
    LET normalized == normalize(seed)
        fresh == [keyword |-> normalized, tokens |-> tokenize(normalized),
                  pages |-> <<>>, clicks |-> 0, impressions |-> 0,
                  ctrs |-> <<>>, positions |-> <<>>]
    IN  IF normalized = <<>> THEN map
        ELSE IF MapHas(map, normalized)
        THEN [map EXCEPT ![MapIndex(map, normalized)].value = fresh]
        ELSE Append(map, [key |-> normalized, value |-> fresh])

(* one iteration of the loop over autocompleteSeeds *)
MergeSeed(map, seed) ==
    LET normalized == normalize(seed)
    IN  IF normalized = <<>> \/ MapHas(map, normalized) THEN map
        ELSE Append(map,
                 [key |-> normalized,
                  value |-> [keyword |-> normalized,
                             tokens |-> tokenize(normalized),
                             pages |-> <<>>,
                             clicks |-> 0,
                             impressions |-> 0,
                             ctrs |-> <<>>,
                             positions |-> <<>>]])

RECURSIVE MergeSeeds(_, _)
MergeSeeds(map, seeds) ==
    IF seeds = <<>> THEN map
    ELSE LET next == MergeSeed(map, Head(seeds))
         IN  Strict(next, MergeSeeds(next, Tail(seeds)))

(* slice(-maxKeywords): the last keys instead of the first *)
TruncatedKeys_Tail(map, maxKeywords) ==
    LET keys == MapKeys(map)
    IN  IF maxKeywords >= Len(keys) THEN keys
        ELSE SubSeq(keys, Len(keys) - maxKeywords + 1, Len(keys))

(* const keywords = Array.from(keywordMap.keys()).slice(0, maxKeywords) *)
TruncatedKeys(map, maxKeywords) == Slice0(MapKeys(map), maxKeywords)

(***************************************************************************)
(* The pairwise similarity loop.  edges is an object keyed by keyword      *)
(* whose values are Sets: a sequence of [node, neighbours] in the order    *)
(* the keys were created (no keyword of the pools is an integer index or   *)
(* a name on Object.prototype).                                            *)
(***************************************************************************)
RMax(x, y) == IF RLess(x, y) THEN y ELSE x

(* a shared page counted as 0.7 *)
PairSimilarity_PageLinks(metricsA, metricsB, a, b) ==
    LET jac == jaccard(metricsA.tokens, metricsB.tokens)
        s1 == IF RLeq(Rat(6, 10), jac) THEN RMax(RInt(0), jac) ELSE RInt(0)
        sharePage == Len(metricsA.pages) > 0 /\ Len(metricsB.pages) > 0
        shared == \E i \in 1..Len(metricsA.pages) :
                     Contains(metricsB.pages, metricsA.pages[i])
        s2 == IF sharePage /\ shared THEN RMax(s1, Rat(7, 10)) ELSE s1
        lev == levenshteinNorm(a, b)
    IN  IF RLeq(lev, Rat(15, 100)) /\ RLeq(Rat(4, 10), jac)
        THEN RMax(s2, Rat(7, 10))
        ELSE s2

PairSimilarity(metricsA, metricsB, a, b) ==
    LET jac == jaccard(metricsA.tokens, metricsB.tokens)
        s1 == IF RLeq(Rat(6, 10), jac) THEN RMax(RInt(0), jac) ELSE RInt(0)
        sharePage == Len(metricsA.pages) > 0 /\ Len(metricsB.pages) > 0
        shared == \E i \in 1..Len(metricsA.pages) :
                     Contains(metricsB.pages, metricsA.pages[i])
        s2 == IF sharePage /\ shared THEN RMax(s1, Rat(3, 10)) ELSE s1
        lev == levenshteinNorm(a, b)
    IN  IF RLeq(lev, Rat(15, 100)) /\ RLeq(Rat(4, 10), jac)
        THEN RMax(s2, Rat(7, 10))
        ELSE s2

EdgesIndex(edges, node) == CHOOSE i \in 1..Len(edges) : edges[i].node = node

(* edges[a] ??= new Set(); edges[b] ??= new Set(); edges[a].add(b); edges[b].add(a) *)
AddEdge(edges, a, b) ==
    LET Ensure(es, k) ==
            IF \E i \in 1..Len(es) : es[i].node = k THEN es
            ELSE Append(es, [node |-> k, neighbours |-> <<>>])
        e1 == Ensure(Ensure(edges, a), b)
        e2 == [e1 EXCEPT ![EdgesIndex(e1, a)].neighbours = SetAdd(@, b)]
    IN  [e2 EXCEPT ![EdgesIndex(e2, b)].neighbours = SetAdd(@, a)]

RECURSIVE BuildEdges(_, _, _, _, _)
BuildEdges(map, keywords, i, j, edges) ==
    IF i > Len(keywords) THEN edges
    ELSE IF j > Len(keywords) THEN BuildEdges(map, keywords, i + 1, i + 2, edges)
    ELSE LET a == keywords[i]
             b == keywords[j]
             similarity == PairSimilarity(MapGet(map, a), MapGet(map, b), a, b)
             next == IF RLeq(Rat(6, 10), similarity)
                     THEN AddEdge(edges, a, b)
                     ELSE edges
         IN  Strict(next, BuildEdges(map, keywords, i, j + 1, next))

(***************************************************************************)
(* Union-find.  parent is a function on the truncated keywords; find       *)
(* compresses the path it walks, so it returns the new parent table with   *)
(* the root.                                                               *)
(***************************************************************************)
(* a find that looks one level up only *)
find_OneLevel(parent, value) == [parent |-> parent, root |-> parent[value]]

RECURSIVE find(_, _)
find(parent, value) ==
    IF parent[value] = value THEN [parent |-> parent, root |-> value]
    ELSE LET up == find(parent, parent[value])
         IN  [parent |-> [up.parent EXCEPT ![value] = up.root], root |-> up.root]

(* the root of a set as parent of b itself, not of the root of b *)
union_NoRootOfB(parent, a, b) ==
    LET fa == find(parent, a)
    IN  [fa.parent EXCEPT ![b] = fa.root]

union(parent, a, b) ==
    LET fa == find(parent, a)
        fb == find(fa.parent, b)
    IN  IF fa.root # fb.root
        THEN [fb.parent EXCEPT ![fb.root] = fa.root]
        ELSE fb.parent

RECURSIVE UnionNeighbours(_, _, _)
UnionNeighbours(parent, node, neighbours) ==
    IF neighbours = <<>> THEN parent
    ELSE LET next == union(parent, node, Head(neighbours))
         IN  Strict(next, UnionNeighbours(next, node, Tail(neighbours)))

(* for (const [node, neighbours] of Object.entries(edges)) ... *)
RECURSIVE UnionEdges(_, _)
UnionEdges(parent, edges) ==
    IF edges = <<>> THEN parent
    ELSE LET next == UnionNeighbours(parent, Head(edges).node,
                                     Head(edges).neighbours)
         IN  Strict(next, UnionEdges(next, Tail(edges)))

InitParent(keywords) == [k \in Range(keywords) |-> k]

(* a loop that sets clustersMap[root] = [keyword] whether or not the root
   has a list already *)
RECURSIVE Materialize_Overwrite(_, _)
Materialize_Overwrite(st, keywords) ==
    IF keywords = <<>> THEN st
    ELSE LET keyword == Head(keywords)
             f == find(st.parent, keyword)
             m == st.map
             next ==
                IF \E i \in 1..Len(m) : m[i].root = f.root
                THEN LET i == CHOOSE i \in 1..Len(m) : m[i].root = f.root
                     IN  [m EXCEPT ![i].list = <<keyword>>]
                ELSE Append(m, [root |-> f.root, list |-> <<keyword>>])
             st2 == [parent |-> f.parent, map |-> next]
         IN  Strict(st2, Materialize_Overwrite(st2, Tail(keywords)))

(* the loop that fills clustersMap, a Map from root to member list; st is
   [parent, map] *)
RECURSIVE Materialize(_, _)
Materialize(st, keywords) ==
    IF keywords = <<>> THEN st
    ELSE LET keyword == Head(keywords)
             f == find(st.parent, keyword)
             m == st.map
             next ==
                IF \E i \in 1..Len(m) : m[i].root = f.root
                THEN LET i == CHOOSE i \in 1..Len(m) : m[i].root = f.root
                     IN  [m EXCEPT ![i].list = Append(@, keyword)]
                ELSE Append(m, [root |-> f.root, list |-> <<keyword>>])
             st2 == [parent |-> f.parent, map |-> next]
         IN  Strict(st2, Materialize(st2, Tail(keywords)))

(* [...clustersMap.values()].filter((group) => group.length > 0) *)
ClusterLists(map) ==
    LET lists == [i \in 1..Len(map) |-> map[i].list]
    IN  SelectSeq(lists, LAMBDA group : Len(group) > 0)

(***************************************************************************)
(* Array.prototype.sort((a, b) => key(b) - key(a)): a stable sort into     *)
(* descending key order.  The elements are [key, item], key a rational.    *)
(***************************************************************************)
(* an element put before the elements of equal key: the sort not stable *)
RECURSIVE InsertSorted_Unstable(_, _)
InsertSorted_Unstable(sorted, e) ==
    IF sorted = <<>> THEN <<e>>
    ELSE IF RLeq(sorted[Len(sorted)].key, e.key)
         THEN Append(InsertSorted_Unstable(SubSeq(sorted, 1, Len(sorted) - 1), e),
                     sorted[Len(sorted)])
         ELSE Append(sorted, e)

RECURSIVE InsertSorted(_, _)
InsertSorted(sorted, e) ==
    IF sorted = <<>> THEN <<e>>
    ELSE IF RLess(sorted[Len(sorted)].key, e.key)
         THEN Append(InsertSorted(SubSeq(sorted, 1, Len(sorted) - 1), e),
                     sorted[Len(sorted)])
         ELSE Append(sorted, e)

RECURSIVE SortDescending(_)
SortDescending(s) ==
    IF s = <<>> THEN <<>>
    ELSE InsertSorted(SortDescending(SubSeq(s, 1, Len(s) - 1)), s[Len(s)])

(***************************************************************************)
(* The aggregation of one cluster.                                         *)
(***************************************************************************)
(* 1000 / (safe + 1000): the complement of the ratio *)
norm_Complement(value) ==
    LET safeN == Max2(0, value.n)
    IN  Rat(1000 * value.d, safeN + 1000 * value.d)

(* safe / 1000, the divisor without safe *)
norm_Unsaturated(value) ==
    LET safeN == Max2(0, value.n)
        ratio == Rat(safeN, 1000 * value.d)
    IN  ratio

norm(value) ==
    LET safeN == Max2(0, value.n)
        ratio == Rat(safeN, safeN + 1000 * value.d)
    IN  IF RLess(RInt(1), ratio) THEN RInt(1) ELSE ratio

(* the comparator's difference reversed: scoreA - scoreB *)
scorePageAggregate_Reversed(aggregate) ==
    LET avgPos == avg(aggregate.pos)
        avgCtr == avg(aggregate.ctr)
    IN  RSub(RMulInt(avgPos, 50),
             RAdd(RAdd(Rat(6 * aggregate.impr, 10), RInt(5 * aggregate.clicks)),
                  RMulInt(avgCtr, 1000)))

scorePageAggregate(aggregate) ==
    LET avgPos == avg(aggregate.pos)
        avgCtr == avg(aggregate.ctr)
    IN  RAdd(RSub(RAdd(Rat(6 * aggregate.impr, 10), RInt(5 * aggregate.clicks)),
                  RMulInt(avgPos, 50)),
             RMulInt(avgCtr, 1000))

(* the bonus of 0.15 given to existing pages instead of new ones *)
Priority_BonusForExisting(sumImpressions, avgCtr, avgPosition, mappedType) ==
    RoundSum(<< RMulInt(norm(RInt(sumImpressions)), 35),
                RMulInt(norm(avgCtr), 25),
                RMulInt(RSub(RInt(1), norm(avgPosition)), 20),
                RInt(IF mappedType = "existing" THEN 15 ELSE 0) >>)

(* the weights of impressions and of CTR exchanged *)
Priority_WeightsSwapped(sumImpressions, avgCtr, avgPosition, mappedType) ==
    RoundSum(<< RMulInt(norm(RInt(sumImpressions)), 25),
                RMulInt(norm(avgCtr), 35),
                RMulInt(RSub(RInt(1), norm(avgPosition)), 20),
                RInt(IF mappedType = "new" THEN 15 ELSE 0) >>)

(* Math.round(100 * (0.35 * norm(sumImpressions) + 0.25 * norm(avgCtr)
               + 0.2 * (1 - norm(avgPosition)) + 0.15 * (type === 'new' ? 1 : 0))) *)
Priority(sumImpressions, avgCtr, avgPosition, mappedType) ==
    RoundSum(<< RMulInt(norm(RInt(sumImpressions)), 35),
                RMulInt(norm(avgCtr), 25),
                RMulInt(RSub(RInt(1), norm(avgPosition)), 20),
                RInt(IF mappedType = "new" THEN 15 ELSE 0) >>)

(* the inner loop over metrics.pages, on the Map pageAggregates *)
RECURSIVE AddPages(_, _, _)
AddPages(aggs, pages, metrics) ==
    IF pages = <<>> THEN aggs
    ELSE LET page == Head(pages)
             has == \E i \in 1..Len(aggs) : aggs[i].page = page
             old == IF has
                    THEN aggs[CHOOSE i \in 1..Len(aggs) : aggs[i].page = page].agg
                    ELSE [impr |-> 0, clicks |-> 0, pos |-> <<>>, ctr |-> <<>>]
             new == [impr |-> old.impr + metrics.impressions,
                     clicks |-> old.clicks + metrics.clicks,
                     pos |-> old.pos \o metrics.positions,
                     ctr |-> old.ctr \o metrics.ctrs]
             next == IF has
                     THEN [aggs EXCEPT
                             ![CHOOSE i \in 1..Len(aggs) : aggs[i].page = page].agg = new]
                     ELSE Append(aggs, [page |-> page, agg |-> new])
         IN  Strict(next, AddPages(next, Tail(pages), metrics))

(* every member counted, with or without samples: ctrCount += 1 and
   posCount += 1 outside the tests of length *)
RECURSIVE Accumulate_CountsEveryMember(_, _, _)
Accumulate_CountsEveryMember(map, clusterKeywords, acc) ==
    IF clusterKeywords = <<>> THEN acc
    ELSE LET metrics == MapGet(map, Head(clusterKeywords))
             hasCtr == Len(metrics.ctrs) > 0
             hasPos == Len(metrics.positions) > 0
             next ==
                [sumImpressions |-> acc.sumImpressions + metrics.impressions,
                 sumClicks |-> acc.sumClicks + metrics.clicks,
                 ctrSum |-> IF hasCtr THEN RAdd(acc.ctrSum, avg(metrics.ctrs))
                            ELSE acc.ctrSum,
                 ctrCount |-> acc.ctrCount + 1,
                 posSum |-> IF hasPos THEN RAdd(acc.posSum, avg(metrics.positions))
                            ELSE acc.posSum,
                 posCount |-> acc.posCount + 1,
                 pageAggregates |-> AddPages(acc.pageAggregates, metrics.pages, metrics)]
         IN  Strict(next, Accumulate_CountsEveryMember(map, Tail(clusterKeywords), next))

(* the loop over clusterKeywords; acc holds the loop's local variables *)
RECURSIVE Accumulate(_, _, _)
Accumulate(map, clusterKeywords, acc) ==
    IF clusterKeywords = <<>> THEN acc
    ELSE LET metrics == MapGet(map, Head(clusterKeywords))
             hasCtr == Len(metrics.ctrs) > 0
             hasPos == Len(metrics.positions) > 0
             next ==
                [sumImpressions |-> acc.sumImpressions + metrics.impressions,
                 sumClicks |-> acc.sumClicks + metrics.clicks,
                 ctrSum |-> IF hasCtr THEN RAdd(acc.ctrSum, avg(metrics.ctrs))
                            ELSE acc.ctrSum,
                 ctrCount |-> acc.ctrCount + (IF hasCtr THEN 1 ELSE 0),
                 posSum |-> IF hasPos THEN RAdd(acc.posSum, avg(metrics.positions))
                            ELSE acc.posSum,
                 posCount |-> acc.posCount + (IF hasPos THEN 1 ELSE 0),
                 pageAggregates |-> AddPages(acc.pageAggregates, metrics.pages, metrics)]
         IN  Strict(next, Accumulate(map, Tail(clusterKeywords), next))

RECURSIVE Join(_, _)
Join(parts, sep) ==
    IF parts = <<>> THEN <<>>
    ELSE IF Len(parts) = 1 THEN parts[1]
    ELSE parts[1] \o <<sep>> \o Join(Tail(parts), sep)

(* a bigram met again keeps its count: counter.set(bigram, counter.get(bigram) ?? 1) *)
RECURSIVE CountBigrams_NoIncrement(_, _, _)
CountBigrams_NoIncrement(counter, tokens, i) ==
    IF i > Len(tokens) - 1 THEN counter
    ELSE LET bigram == tokens[i] \o <<" ">> \o tokens[i + 1]
             has == \E k \in 1..Len(counter) : counter[k].item = bigram
             next == IF has THEN counter
                     ELSE Append(counter, [key |-> RInt(1), item |-> bigram])
         IN  Strict(next, CountBigrams_NoIncrement(next, tokens, i + 1))

(* mostCommonBigram: counter is a Map from bigram to count *)
RECURSIVE CountBigrams(_, _, _)
CountBigrams(counter, tokens, i) ==
    IF i > Len(tokens) - 1 THEN counter
    ELSE LET bigram == tokens[i] \o <<" ">> \o tokens[i + 1]
             has == \E k \in 1..Len(counter) : counter[k].item = bigram
             next == IF has
                     THEN [counter EXCEPT
                             ![CHOOSE k \in 1..Len(counter) : counter[k].item = bigram].key =
                                 RAdd(@, RInt(1))]
                     ELSE Append(counter, [key |-> RInt(1), item |-> bigram])
         IN  Strict(next, CountBigrams(next, tokens, i + 1))

RECURSIVE CountAllBigrams(_, _)
CountAllBigrams(counter, keywords) ==
    IF keywords = <<>> THEN counter
    ELSE LET next == CountBigrams(counter, tokenize(Head(keywords)), 1)
         IN  Strict(next, CountAllBigrams(next, Tail(keywords)))

mostCommonBigram(keywords) ==
    LET sorted == SortDescending(CountAllBigrams(<<>>, keywords))
    IN  IF sorted # <<>> THEN sorted[1].item ELSE keywords[1]

(* the new page advised from position 15 on: avgPosition >= 15 *)
recommendationMessages_FromFifteen(mappedType, avgPosition, avgCtr, label) ==
    (IF mappedType = "existing" /\ RLess(RInt(5), avgPosition)
                                /\ RLess(avgPosition, RInt(15))
     THEN <<[text |-> "Update page for \"{label}\" with FAQs and subtopics.",
             label |-> label]>>
     ELSE <<>>)
    \o (IF mappedType = "new" /\ RLeq(RInt(15), avgPosition)
        THEN <<[text |-> "Create a new page targeting \"{label}\".", label |-> label]>>
        ELSE <<>>)
    \o (IF RLess(avgCtr, Rat(2, 100)) /\ RLeq(avgPosition, RInt(5))
        THEN <<[text |-> "Improve meta title for \"{label}\" to boost CTR.",
                label |-> label]>>
        ELSE <<>>)
    \o <<[text |-> "Add internal links from related pages.", label |-> <<>>]>>

(* a message is the template with the label it is filled with *)
recommendationMessages(mappedType, avgPosition, avgCtr, label) ==
    (IF mappedType = "existing" /\ RLess(RInt(5), avgPosition)
                                /\ RLess(avgPosition, RInt(15))
     THEN <<[text |-> "Update page for \"{label}\" with FAQs and subtopics.",
             label |-> label]>>
     ELSE <<>>)
    \o (IF mappedType = "new" /\ RLess(RInt(15), avgPosition)
        THEN <<[text |-> "Create a new page targeting \"{label}\".", label |-> label]>>
        ELSE <<>>)
    \o (IF RLess(avgCtr, Rat(2, 100)) /\ RLeq(avgPosition, RInt(5))
        THEN <<[text |-> "Improve meta title for \"{label}\" to boost CTR.",
                label |-> label]>>
        ELSE <<>>)
    \o <<[text |-> "Add internal links from related pages.", label |-> <<>>]>>

(* the callback of clusters.map *)
ClusterRecommendation(map, clusterKeywords) ==
    LET acc == Accumulate(map, clusterKeywords,
                  [sumImpressions |-> 0, sumClicks |-> 0,
                   ctrSum |-> RInt(0), ctrCount |-> 0,
                   posSum |-> RInt(0), posCount |-> 0,
                   pageAggregates |-> <<>>])
        avgCtr == IF acc.ctrCount # 0 THEN RDivInt(acc.ctrSum, acc.ctrCount) ELSE RInt(0)
        avgPosition ==
            IF acc.posCount # 0 THEN RDivInt(acc.posSum, acc.posCount) ELSE RInt(0)
        scored == [i \in 1..Len(acc.pageAggregates) |->
                     [key |-> scorePageAggregate(acc.pageAggregates[i].agg),
                      item |-> acc.pageAggregates[i].page]]
        mappedPage ==
            IF Len(acc.pageAggregates) > 0
            THEN [type |-> "existing", url |-> SortDescending(scored)[1].item]
            ELSE [type |-> "new",
                  suggestedSlug |->
                     <<"/">> \o Join(Slice0(Split(clusterKeywords[1]), 3), "-")]
        label == mostCommonBigram(clusterKeywords)
        byImpressions ==
            SortDescending([i \in 1..Len(clusterKeywords) |->
                [key |-> RInt(MapGet(map, clusterKeywords[i]).impressions),
                 item |-> clusterKeywords[i]]])
    IN  [label |-> label,
         priority |-> Priority(acc.sumImpressions, avgCtr, avgPosition, mappedPage.type),
         representativeKeyword |-> byImpressions[1].item,
         mappedPage |-> mappedPage,
         rollup |-> [keywords |-> Len(clusterKeywords),
                     sumImpressions |-> acc.sumImpressions,
                     sumClicks |-> acc.sumClicks,
                     avgCtr |-> avgCtr,
                     avgPosition |-> avgPosition],
         keywords |-> [i \in 1..Len(clusterKeywords) |->
                         LET metrics == MapGet(map, clusterKeywords[i])
                         IN  [keyword |-> clusterKeywords[i],
                              clicks |-> metrics.clicks,
                              impressions |-> metrics.impressions,
                              avgCtr |-> avg(metrics.ctrs),
                              avgPosition |-> avg(metrics.positions),
                              pages |-> metrics.pages]],
         recommendations |->
            recommendationMessages(mappedPage.type, avgPosition, avgCtr, label)]

(* .sort((a, b) => a.priority - b.priority) *)
SortByPriority_Ascending(recs) ==
    LET keyed == [i \in 1..Len(recs) |-> [key |-> RInt(-recs[i].priority), item |-> recs[i]]]
        sorted == SortDescending(keyed)
    IN  [i \in 1..Len(sorted) |-> sorted[i].item]

(* .sort((a, b) => b.priority - a.priority) *)
SortByPriority(recs) ==
    LET keyed == [i \in 1..Len(recs) |-> [key |-> RInt(recs[i].priority), item |-> recs[i]]]
        sorted == SortDescending(keyed)
    IN  [i \in 1..Len(sorted) |-> sorted[i].item]

ClusterResults(map, clusters) ==
    SortByPriority([i \in 1..Len(clusters) |-> ClusterRecommendation(map, clusters[i])])

(***************************************************************************)
(* One invocation of getKeywordClusters as a state machine.                *)
(*                                                                         *)
(* pc            where the invocation stands                               *)
(* input         the validated KeywordClustersInput (the fields that       *)
(*               decide anything: query, includeAutocomplete, maxKeywords) *)
(* gsc, ac       the promises of fetchGscRows and of fetchAutocomplete     *)
(*               (or of Promise.resolve([])): [state, value, called]       *)
(* gscRows, autocompleteSeeds   what the await of Promise.all delivered    *)
(* keywordMap, keywords, edges, parent, clusters   the locals of the call  *)
(* result        <<>> until the call returns, then <<the result>>          *)
(* call, ret     a pure function applied on its own: its name with its     *)
(*               arguments, and <<>> or <<what it returned>>               *)
(***************************************************************************)
VARIABLES pc, input, gsc, ac, gscRows, autocompleteSeeds, keywordMap,
          keywords, edges, parent, clusters, result, call, ret,
          now, buckets, executed, response, invocations, crawl

(* the state of the rate limiter: the clock Date.now() reads, the module's
   Map buckets, the log of the executor runs and the last tool response *)
limiterVars == <<now, buckets, executed, response>>

(* the locals and promises of getKeywordClusters, and the call under test *)
clusterVars == <<pc, input, gsc, ac, gscRows, autocompleteSeeds, keywordMap,
                 keywords, edges, parent, clusters, result, call, ret>>

vars == <<pc, input, gsc, ac, gscRows, autocompleteSeeds, keywordMap,
          keywords, edges, parent, clusters, result, call, ret,
          now, buckets, executed, response, invocations, crawl>>

InitLimiter ==
    /\ now = 0
    /\ buckets = <<>>
    /\ executed = <<>>
    /\ response = <<>>

(* invocations holds the locals of the calls of getKeywordClusters that are
   under way side by side; none where one call is followed alone *)
NoInvocations == invocations = <<>>

(* crawl holds the locals of a call of fetchAutocomplete that is followed
   step by step; none elsewhere *)
NoCrawl == crawl = <<>>

NoPromise == [state |-> "none", value |-> <<>>, called |-> FALSE]

Init ==
    /\ pc = "idle"
    /\ input = [query |-> <<>>, includeAutocomplete |-> TRUE, maxKeywords |-> 1]
    /\ gsc = NoPromise
    /\ ac = NoPromise
    /\ gscRows = <<>>
    /\ autocompleteSeeds = <<>>
    /\ keywordMap = <<>>
    /\ keywords = <<>>
    /\ edges = <<>>
    /\ parent = <<>>
    /\ clusters = <<>>
    /\ result = <<>>
    /\ InitLimiter
    /\ NoInvocations
    /\ NoCrawl
    /\ call = [fn |-> "none"]
    /\ ret = <<>>

(* the fetches one after the other: await fetchGscRows(...) before
   fetchAutocomplete is called *)
Start_Sequential(query, includeAutocomplete, maxKeywords) ==
    /\ pc = "idle"
    /\ pc' = "await"
    /\ input' = [query |-> query, includeAutocomplete |-> includeAutocomplete,
                 maxKeywords |-> maxKeywords]
    /\ gsc' = [state |-> "pending", value |-> <<>>, called |-> TRUE]
    /\ ac' = IF includeAutocomplete /\ query # <<>>
             THEN [state |-> "none", value |-> <<>>, called |-> FALSE]
             ELSE [state |-> "fulfilled", value |-> <<>>, called |-> FALSE]
    /\ UNCHANGED limiterVars
    /\ UNCHANGED invocations
    /\ UNCHANGED crawl
    /\ UNCHANGED <<call, ret, gscRows, autocompleteSeeds, keywordMap, keywords, edges,
                   parent, clusters, result>>

(* the call: both elements of the array given to Promise.all are evaluated
   before the await *)
Start(query, includeAutocomplete, maxKeywords) ==
    /\ pc = "idle"
    /\ pc' = "await"
    /\ input' = [query |-> query, includeAutocomplete |-> includeAutocomplete,
                 maxKeywords |-> maxKeywords]
    /\ gsc' = [state |-> "pending", value |-> <<>>, called |-> TRUE]
    /\ ac' = IF includeAutocomplete /\ query # <<>>
             THEN [state |-> "pending", value |-> <<>>, called |-> TRUE]
             ELSE [state |-> "fulfilled", value |-> <<>>, called |-> FALSE]
    /\ UNCHANGED limiterVars
    /\ UNCHANGED invocations
    /\ UNCHANGED crawl
    /\ UNCHANGED <<call, ret, gscRows, autocompleteSeeds, keywordMap, keywords, edges,
                   parent, clusters, result>>

(* fetchGscRows returns mapRows(response.data.rows), at most rowLimit rows *)
GscFulfil(rows) ==
    /\ gsc.state = "pending"
    /\ Len(rows) <= Min2(input.maxKeywords * 4, 25000)
    /\ gsc' = [gsc EXCEPT !.state = "fulfilled", !.value = rows]
    /\ UNCHANGED limiterVars
    /\ UNCHANGED invocations
    /\ UNCHANGED crawl
    /\ UNCHANGED <<call, ret, pc, input, ac, gscRows, autocompleteSeeds, keywordMap,
                   keywords, edges, parent, clusters, result>>

(* fetchGscRows throws: no credentials, or the Search Console request fails *)
GscReject ==
    /\ gsc.state = "pending"
    /\ gsc' = [gsc EXCEPT !.state = "rejected"]
    /\ UNCHANGED limiterVars
    /\ UNCHANGED invocations
    /\ UNCHANGED crawl
    /\ UNCHANGED <<call, ret, pc, input, ac, gscRows, autocompleteSeeds, keywordMap,
                   keywords, edges, parent, clusters, result>>

(* fetchAutocomplete returns Array.from(collected), collected a Set *)
AcFulfil(seeds) ==
    /\ ac.state = "pending"
    /\ ac' = [ac EXCEPT !.state = "fulfilled", !.value = seeds]
    /\ UNCHANGED limiterVars
    /\ UNCHANGED invocations
    /\ UNCHANGED crawl
    /\ UNCHANGED <<call, ret, pc, input, gsc, gscRows, autocompleteSeeds, keywordMap,
                   keywords, edges, parent, clusters, result>>

(* fetchAutocompleteSuggestions throws inside fetchAutocomplete, which has
   no try/catch *)
AcReject ==
    /\ ac.state = "pending"
    /\ ac' = [ac EXCEPT !.state = "rejected"]
    /\ UNCHANGED limiterVars
    /\ UNCHANGED invocations
    /\ UNCHANGED crawl
    /\ UNCHANGED <<call, ret, pc, input, gsc, gscRows, autocompleteSeeds, keywordMap,
                   keywords, edges, parent, clusters, result>>

(* Promise.allSettled with [] for a rejected promise *)
AwaitRejected_Settled ==
    /\ pc = "await"
    /\ gsc.state = "rejected" \/ ac.state = "rejected"
    /\ gsc.state # "pending" /\ ac.state # "pending"
    /\ pc' = "mergeRows"
    /\ gscRows' = (IF gsc.state = "fulfilled" THEN gsc.value ELSE <<>>)
    /\ autocompleteSeeds' = (IF ac.state = "fulfilled" THEN ac.value ELSE <<>>)
    /\ UNCHANGED limiterVars
    /\ UNCHANGED invocations
    /\ UNCHANGED crawl
    /\ UNCHANGED <<call, ret, input, gsc, ac, keywordMap, keywords, edges,
                   parent, clusters, result>>

(* Promise.all rejects as soon as one of its promises does; the await
   throws and nothing catches it *)
AwaitRejected ==
    /\ pc = "await"
    /\ gsc.state = "rejected" \/ ac.state = "rejected"
    /\ pc' = "failed"
    /\ UNCHANGED limiterVars
    /\ UNCHANGED invocations
    /\ UNCHANGED crawl
    /\ UNCHANGED <<call, ret, input, gsc, ac, gscRows, autocompleteSeeds, keywordMap,
                   keywords, edges, parent, clusters, result>>

(* const [gscRows, autocompleteSeeds] = await Promise.all([...]) *)
AwaitFulfilled ==
    /\ pc = "await"
    /\ gsc.state = "fulfilled" /\ ac.state = "fulfilled"
    /\ pc' = "mergeRows"
    /\ gscRows' = gsc.value
    /\ autocompleteSeeds' = ac.value
    /\ UNCHANGED limiterVars
    /\ UNCHANGED invocations
    /\ UNCHANGED crawl
    /\ UNCHANGED <<call, ret, input, gsc, ac, keywordMap, keywords, edges, parent,
                   clusters, result>>

MergeRowsStep ==
    /\ pc = "mergeRows"
    /\ keywordMap' = MergeRows(<<>>, gscRows)
    /\ pc' = "mergeSeeds"
    /\ UNCHANGED limiterVars
    /\ UNCHANGED invocations
    /\ UNCHANGED crawl
    /\ UNCHANGED <<call, ret, input, gsc, ac, gscRows, autocompleteSeeds, keywords, edges,
                   parent, clusters, result>>

MergeSeedsStep ==
    /\ pc = "mergeSeeds"
    /\ keywordMap' = MergeSeeds(keywordMap, autocompleteSeeds)
    /\ pc' = "similarity"
    /\ UNCHANGED limiterVars
    /\ UNCHANGED invocations
    /\ UNCHANGED crawl
    /\ UNCHANGED <<call, ret, input, gsc, ac, gscRows, autocompleteSeeds, keywords, edges,
                   parent, clusters, result>>

SimilarityStep ==
    /\ pc = "similarity"
    /\ keywords' = TruncatedKeys(keywordMap, input.maxKeywords)
    /\ edges' = BuildEdges(keywordMap, keywords', 1, 2, <<>>)
    /\ pc' = "union"
    /\ UNCHANGED limiterVars
    /\ UNCHANGED invocations
    /\ UNCHANGED crawl
    /\ UNCHANGED <<call, ret, input, gsc, ac, gscRows, autocompleteSeeds, keywordMap,
                   parent, clusters, result>>

UnionStep ==
    /\ pc = "union"
    /\ parent' = UnionEdges(InitParent(keywords), edges)
    /\ pc' = "materialize"
    /\ UNCHANGED limiterVars
    /\ UNCHANGED invocations
    /\ UNCHANGED crawl
    /\ UNCHANGED <<call, ret, input, gsc, ac, gscRows, autocompleteSeeds, keywordMap,
                   keywords, edges, clusters, result>>

MaterializeStep ==
    /\ pc = "materialize"
    /\ LET st == Materialize([parent |-> parent, map |-> <<>>], keywords)
       IN  /\ parent' = st.parent
           /\ clusters' = ClusterLists(st.map)
    /\ pc' = "aggregate"
    /\ UNCHANGED limiterVars
    /\ UNCHANGED invocations
    /\ UNCHANGED crawl
    /\ UNCHANGED <<call, ret, input, gsc, ac, gscRows, autocompleteSeeds, keywordMap,
                   keywords, edges, result>>

ReturnStep ==
    /\ pc = "aggregate"
    /\ result' = <<[query |-> input.query,
                    includeAutocomplete |-> input.includeAutocomplete,
                    clusters |-> ClusterResults(keywordMap, clusters)]>>
    /\ pc' = "returned"
    /\ UNCHANGED limiterVars
    /\ UNCHANGED invocations
    /\ UNCHANGED crawl
    /\ UNCHANGED <<call, ret, input, gsc, ac, gscRows, autocompleteSeeds, keywordMap,
                   keywords, edges, parent, clusters>>

Next ==
    \/ \E query \in QueryPool, includeAutocomplete \in BOOLEAN,
          maxKeywords \in 1..MaxKeywords :
          Start(query, includeAutocomplete, maxKeywords)
    \/ \E rows \in DistinctSeqs(RowPool, MaxRows) : GscFulfil(rows)
    \/ GscReject
    \/ \E seeds \in DistinctSeqs(SeedPool, Cardinality(SeedPool)) : AcFulfil(seeds)
    \/ AcReject
    \/ AwaitRejected
    \/ AwaitFulfilled
    \/ MergeRowsStep
    \/ MergeSeedsStep
    \/ SimilarityStep
    \/ UnionStep
    \/ MaterializeStep
    \/ ReturnStep

Spec == Init /\ [][Next]_vars

(***************************************************************************)
(* The invocations that succeed, with maxKeywords left to its default, on  *)
(* the rows and seeds chosen for the aggregation of a cluster.             *)
(***************************************************************************)
DefaultMaxKeywords == 2000

NextDetail ==
    \/ \E includeAutocomplete \in BOOLEAN :
          Start(<<"a", "b">>, includeAutocomplete, DefaultMaxKeywords)
    \/ \E rows \in DistinctSeqs(DetailRowPool, MaxRows) : GscFulfil(rows)
    \/ \E seeds \in DetailSeedLists : AcFulfil(seeds)
    \/ AwaitFulfilled
    \/ MergeRowsStep
    \/ MergeSeedsStep
    \/ SimilarityStep
    \/ UnionStep
    \/ MaterializeStep
    \/ ReturnStep

SpecDetail == Init /\ [][NextDetail]_vars

(***************************************************************************)
(* The priority formula applied on its own, to rollup values no pool of    *)
(* rows produces: zero, negative, fractional and very large ones.          *)
(***************************************************************************)
PriorityImpressions == {-5, 0, 1, 1000, 18400, 10 ^ 7}

PriorityCtrs == {Rat(0, 1), Rat(1, 50), Rat(45, 1000), Rat(1, 1), Rat(1000, 1)}

PriorityPositions == {Rat(-5, 1), Rat(0, 1), Rat(31, 5), Rat(15, 1), Rat(10 ^ 6, 1)}

InitPriority ==
    /\ pc = "idle"
    /\ input = [query |-> <<>>, includeAutocomplete |-> TRUE, maxKeywords |-> 1]
    /\ gsc = NoPromise
    /\ ac = NoPromise
    /\ gscRows = <<>>
    /\ autocompleteSeeds = <<>>
    /\ keywordMap = <<>>
    /\ keywords = <<>>
    /\ edges = <<>>
    /\ parent = <<>>
    /\ clusters = <<>>
    /\ result = <<>>
    /\ InitLimiter
    /\ NoInvocations
    /\ NoCrawl
    /\ call \in [fn : {"priority"}, sumImpressions : PriorityImpressions,
                 avgCtr : PriorityCtrs, avgPosition : PriorityPositions,
                 mappedType : {"existing", "new"}]
    /\ ret = <<>>

ApplyPriority ==
    /\ call.fn = "priority"
    /\ ret = <<>>
    /\ ret' = <<Priority(call.sumImpressions, call.avgCtr, call.avgPosition,
                         call.mappedType)>>
    /\ UNCHANGED limiterVars
    /\ UNCHANGED invocations
    /\ UNCHANGED crawl
    /\ UNCHANGED <<pc, input, gsc, ac, gscRows, autocompleteSeeds, keywordMap,
                   keywords, edges, parent, clusters, result, call>>

SpecPriority == InitPriority /\ [][ApplyPriority]_vars


(***************************************************************************)
(* Properties of getKeywordClusters.                                       *)
(***************************************************************************)
Returned == pc = "returned" /\ result # <<>>

ResultClusters == result[1].clusters

(* the member keywords of one returned cluster, in order *)
Members(cluster) == [i \in 1..Len(cluster.keywords) |-> cluster.keywords[i].keyword]

RECURSIVE Flatten(_)
Flatten(lists) == IF lists = <<>> THEN <<>> ELSE Head(lists) \o Flatten(Tail(lists))

AllMembers == Flatten([i \in 1..Len(ResultClusters) |-> Members(ResultClusters[i])])

NoDuplicates(s) == \A i, j \in 1..Len(s) : s[i] = s[j] => i = j

PositionIn(s, e) == CHOOSE i \in 1..Len(s) : s[i] = e

(* the index of the returned cluster that holds keyword *)
ClusterOf(keyword) ==
    CHOOSE i \in 1..Len(ResultClusters) : Contains(Members(ResultClusters[i]), keyword)

(* C1: the member lists of the returned clusters partition the truncated
   keyword set: every truncated keyword is in exactly one cluster, no keyword
   appears twice within or across clusters, no cluster is empty and no
   keyword from outside the truncated set appears. *)
C1_ClustersPartitionKeywords ==
    Returned =>
        /\ \A i \in 1..Len(ResultClusters) : Len(ResultClusters[i].keywords) > 0
        /\ NoDuplicates(AllMembers)
        /\ Range(AllMembers) = Range(keywords)
        /\ \A i \in 1..Len(ResultClusters) :
              ResultClusters[i].rollup.keywords = Len(ResultClusters[i].keywords)

C1_Witness ==
    /\ Returned
    /\ Len(ResultClusters) >= 2
    /\ \E i \in 1..Len(ResultClusters) : Len(ResultClusters[i].keywords) >= 2
    /\ Len(keywords) < Len(keywordMap)

(* a and b have a similarity edge *)
Adjacent(a, b) ==
    \E i \in 1..Len(edges) : edges[i].node = a /\ Contains(edges[i].neighbours, b)

(* the keywords reachable from the set seen along edges *)
RECURSIVE ReachFrom(_)
ReachFrom(seen) ==
    LET more == {k \in Range(keywords) : \E s \in seen : Adjacent(s, k) \/ Adjacent(k, s)}
    IN  IF more \subseteq seen THEN seen ELSE ReachFrom(seen \cup more)

Connected(a, b) == b \in ReachFrom({a})

(* C2: two truncated keywords are in the same returned cluster exactly when a
   path of similarity edges connects them; with no edges every keyword is a
   singleton cluster, and with no keywords the clusters list is empty and
   the call has not failed. *)
C2_ClustersAreConnectedComponents ==
    Returned =>
        /\ \A a, b \in Range(keywords) :
              (ClusterOf(a) = ClusterOf(b)) <=> Connected(a, b)
        /\ edges = <<>> =>
              /\ Len(ResultClusters) = Len(keywords)
              /\ \A i \in 1..Len(ResultClusters) : Len(ResultClusters[i].keywords) = 1
        /\ keywords = <<>> => ResultClusters = <<>>

C2_Witness ==
    /\ Returned
    /\ \E a, b \in Range(keywords) :
          /\ a # b
          /\ ClusterOf(a) = ClusterOf(b)
          /\ ~Adjacent(a, b) /\ ~Adjacent(b, a)
          /\ Len(ResultClusters[ClusterOf(a)].keywords) = 4

(* C3: when fetchAutocomplete fails and fetchGscRows succeeds the call does
   not fail; the failure counts as zero expansion terms. *)
C3_ExpansionFailureIsNotFatal ==
    (gsc.state = "fulfilled" /\ ac.state = "rejected") => pc # "failed"

(* C4: when fetchGscRows fails the call fails as a whole; no result, partial
   or expansion-only, is ever returned, whatever fetchAutocomplete did. *)
C4_AnalyticsFailureIsFatal ==
    gsc.state = "rejected" =>
        /\ result = <<>>
        /\ pc \in {"await", "failed"}

C4_Witness ==
    /\ gsc.state = "rejected"
    /\ ac.state = "fulfilled" /\ ac.value # <<>>
    /\ pc = "failed"


(* s without the later occurrences of an element *)
Distinct(s) ==
    LET firsts == SelectSeq([i \in 1..Len(s) |-> i],
                            LAMBDA i : \A j \in 1..(i - 1) : s[j] # s[i])
    IN  [k \in 1..Len(firsts) |-> s[firsts[k]]]

NonEmpty(s) == SelectSeq(s, LAMBDA e : e # <<>>)

(* the distinct non-empty normalized queries of the rows, in row order *)
PerformanceKeys ==
    Distinct(NonEmpty([i \in 1..Len(gscRows) |-> normalize(gscRows[i].query)]))

(* the distinct non-empty normalized seeds that no row has, in seed order *)
ExpansionKeys ==
    SelectSeq(Distinct(NonEmpty([i \in 1..Len(autocompleteSeeds) |->
                                   normalize(autocompleteSeeds[i])])),
              LAMBDA k : ~Contains(PerformanceKeys, k))

CandidateKeys == PerformanceKeys \o ExpansionKeys

(* C5: the clustered keywords are exactly the first maxKeywords keys of the
   merged map, whose keys are the performance keywords followed by the
   expansion keywords; their number is min(maxKeywords, distinct non-empty
   normalized keywords); an expansion keyword is clustered only if every
   performance keyword is; maxKeywords = 1 gives one cluster holding the
   first-inserted keyword alone. *)
C5_TruncationKeepsFirstInserted ==
    Returned =>
        /\ MapKeys(keywordMap) = CandidateKeys
        /\ Range(AllMembers) = {CandidateKeys[i] :
              i \in 1..Min2(input.maxKeywords, Len(CandidateKeys))}
        /\ Len(AllMembers) = Min2(input.maxKeywords, Len(CandidateKeys))
        /\ (\E k \in Range(ExpansionKeys) : k \in Range(AllMembers))
              => Range(PerformanceKeys) \subseteq Range(AllMembers)
        /\ (input.maxKeywords = 1 /\ Len(CandidateKeys) >= 2) =>
              /\ Len(ResultClusters) = 1
              /\ Members(ResultClusters[1]) = <<CandidateKeys[1]>>

C5_Witness ==
    /\ Returned
    /\ Len(PerformanceKeys) = 2
    /\ Len(ExpansionKeys) = 1
    /\ Len(autocompleteSeeds) = 2
    /\ input.maxKeywords = 2
    /\ Len(AllMembers) = 2

(* the rows whose normalized query is key, in row order *)
RowsFor(key) == SelectSeq(gscRows, LAMBDA row : normalize(row.query) = key)

(* C6: after the row merge every keyword of the map has the sums of clicks
   and of impressions of its rows, the union of their non-empty pages, and
   one ctr sample and one position sample per row, in row order, the first
   row and zero values included. *)
C6_RowMergeKeepsEverySample ==
    pc = "mergeSeeds" =>
        \A e \in 1..Len(keywordMap) :
            LET rows == RowsFor(keywordMap[e].key)
                value == keywordMap[e].value
            IN  /\ value.clicks = RSum([i \in 1..Len(rows) |-> RInt(rows[i].clicks)]).n
                /\ value.impressions =
                      RSum([i \in 1..Len(rows) |-> RInt(rows[i].impressions)]).n
                /\ Range(value.pages) = {rows[i].page : i \in 1..Len(rows)} \ {""}
                /\ value.ctrs = [i \in 1..Len(rows) |-> rows[i].ctr]
                /\ value.positions = [i \in 1..Len(rows) |-> rows[i].position]

(* C7: merging the expansion terms changes no entry the map has: the
   entries before the merge are the first entries after it, unchanged; an
   entry that is new has the non-empty normalized form of a term as its key,
   zero clicks and impressions, no pages and no samples; every non-empty
   normalized term is a key afterwards; a key equals its entry's keyword. *)
C7_SeedMergeKeepsExistingEntries ==
    [][pc = "mergeSeeds" =>
         /\ Len(keywordMap') >= Len(keywordMap)
         /\ \A i \in 1..Len(keywordMap) : keywordMap'[i] = keywordMap[i]
         /\ \A i \in (Len(keywordMap) + 1)..Len(keywordMap') :
               /\ keywordMap'[i].key # <<>>
               /\ \E j \in 1..Len(autocompleteSeeds) :
                     keywordMap'[i].key = normalize(autocompleteSeeds[j])
               /\ ~MapHas(keywordMap, keywordMap'[i].key)
               /\ keywordMap'[i].value.clicks = 0
               /\ keywordMap'[i].value.impressions = 0
               /\ keywordMap'[i].value.pages = <<>>
               /\ keywordMap'[i].value.ctrs = <<>>
               /\ keywordMap'[i].value.positions = <<>>
         /\ \A j \in 1..Len(autocompleteSeeds) :
               normalize(autocompleteSeeds[j]) # <<>>
                  => MapHas(keywordMap', normalize(autocompleteSeeds[j]))
         /\ NoDuplicates(MapKeys(keywordMap'))
         /\ \A i \in 1..Len(keywordMap') :
               keywordMap'[i].key = keywordMap'[i].value.keyword]_vars

C7_Witness ==
    /\ pc = "similarity"
    /\ \E j \in 1..Len(autocompleteSeeds) :
          \E i \in 1..Len(keywordMap) :
              /\ keywordMap[i].key = normalize(autocompleteSeeds[j])
              /\ keywordMap[i].value.impressions > 0
              /\ keywordMap[i].value.pages # <<>>
    /\ \E i \in 1..Len(keywordMap) :
          /\ keywordMap[i].value.impressions = 0
          /\ keywordMap[i].value.positions = <<>>


(* the position in the truncated keyword list of the first member of the
   returned cluster at index i: clustersMap gets its entries in that order *)
FirstSeen(i) == PositionIn(keywords, Members(ResultClusters[i])[1])

(* C8: the returned clusters are in non-increasing order of priority, and
   clusters of equal priority are in the order of their materialization,
   the order of their first members in the truncated keyword list. *)
C8_SortedByPriorityStable ==
    Returned =>
        \A i, j \in 1..Len(ResultClusters) :
            i < j =>
                /\ ResultClusters[i].priority >= ResultClusters[j].priority
                /\ ResultClusters[i].priority = ResultClusters[j].priority
                      => FirstSeen(i) < FirstSeen(j)

C8_Witness ==
    /\ Returned
    /\ Len(ResultClusters) >= 3
    /\ \E i, j \in 1..Len(ResultClusters) :
          i < j /\ ResultClusters[i].priority = ResultClusters[j].priority
    /\ \E i, j \in 1..Len(ResultClusters) :
          i < j /\ FirstSeen(i) > FirstSeen(j)

(* norm(x) = max(0, x) / (max(0, x) + 1000) on a rational *)
FormulaNorm(x) ==
    LET safe == IF x.n > 0 THEN x ELSE RInt(0)
    IN  Rat(safe.n, safe.n + 1000 * safe.d)

(* the four summands of 100 * (0.35 norm(I) + 0.25 norm(ctr)
   + 0.20 (1 - norm(pos)) + 0.15 [type = new]) *)
FormulaTerms(sumImpressions, avgCtr, avgPosition, mappedType) ==
    << RMulInt(FormulaNorm(RInt(sumImpressions)), 35),
       RMulInt(FormulaNorm(avgCtr), 25),
       RMulInt(RSub(RInt(1), FormulaNorm(avgPosition)), 20),
       RInt(IF mappedType = "new" THEN 15 ELSE 0) >>

(* the numerator of the sum of ts over the product of all denominators *)
RECURSIVE SumNumerator(_, _)
SumNumerator(ts, i) ==
    IF i > Len(ts) THEN <<>>
    ELSE BigAdd(BigMul(BigNat(ts[i].n), DenProduct(ts, 1, i)),
                SumNumerator(ts, i + 1))

(* r is the integer nearest to the sum of the non-negative rationals ts, a
   tie going upwards: r - 1/2 <= sum < r + 1/2, multiplied out *)
NearestInteger(r, ts) ==
    LET D  == DenProduct(ts, 1, 0)
        N2 == BigScale(SumNumerator(ts, 1), 2, 0)
    IN  /\ r >= 0
        /\ r = 0 \/ BigLeq(BigScale(D, 2 * r - 1, 0), N2)
        /\ ~BigLeq(BigScale(D, 2 * r + 1, 0), N2)

(* C9: the priority of every returned cluster is the formula of the
   specification, rounded to the nearest integer, on the sumImpressions,
   avgCtr and avgPosition of the cluster's rollup and the type of its
   mapped page. *)
C9_PriorityMatchesFormula ==
    Returned =>
        \A i \in 1..Len(ResultClusters) :
            LET c == ResultClusters[i]
            IN  NearestInteger(c.priority,
                    FormulaTerms(c.rollup.sumImpressions, c.rollup.avgCtr,
                                 c.rollup.avgPosition, c.mappedPage.type))

C9_Witness ==
    /\ Returned
    /\ \E i \in 1..Len(ResultClusters) :
          /\ ResultClusters[i].mappedPage.type = "existing"
          /\ ResultClusters[i].rollup.keywords >= 2
          /\ ResultClusters[i].rollup.avgCtr.d > 1
          /\ ResultClusters[i].rollup.avgPosition.d > 1
          /\ ResultClusters[i].priority > 20
    /\ \E i \in 1..Len(ResultClusters) :
          /\ ResultClusters[i].mappedPage.type = "new"
          /\ ResultClusters[i].priority = 35

(* C10: for non-negative impressions, CTR and position the priority is an
   integer from 0 to 100. *)
C10_PriorityWithinBounds ==
    (/\ ret # <<>>
     /\ call.sumImpressions >= 0
     /\ call.avgCtr.n >= 0
     /\ call.avgPosition.n >= 0) => ret[1] \in 0..100

C10_Witness ==
    /\ ret # <<>>
    /\ call.sumImpressions = 10 ^ 7
    /\ call.avgCtr = Rat(1000, 1)
    /\ call.avgPosition = Rat(0, 1)
    /\ call.mappedType = "new"
    /\ ret[1] > 80

(* C11: priority is monotone in the summed impressions: with avgCtr,
   avgPosition and the type of the mapped page the same, larger summed
   impressions never give a smaller priority. *)
C11_PriorityMonotoneInImpressions ==
    ret # <<>> =>
        \A larger \in PriorityImpressions :
            larger >= call.sumImpressions =>
                Priority(larger, call.avgCtr, call.avgPosition, call.mappedType)
                    >= ret[1]

C11_Witness ==
    /\ ret # <<>>
    /\ call.sumImpressions = 1000
    /\ Priority(18400, call.avgCtr, call.avgPosition, call.mappedType) > ret[1]
    /\ Priority(0, call.avgCtr, call.avgPosition, call.mappedType) < ret[1]

(* ---- the mapped page of a cluster ---- *)

(* the pages of the members of a cluster *)
ClusterPages(members) ==
    UNION {Range(MapGet(keywordMap, members[i]).pages) : i \in 1..Len(members)}

(* the place at which a page is first met, members in order and the pages of
   one member in order *)
FirstAggregatedAt(members, page) ==
    LET places == {<<i, j>> \in (1..Len(members)) \X (1..8) :
                      /\ j <= Len(MapGet(keywordMap, members[i]).pages)
                      /\ MapGet(keywordMap, members[i]).pages[j] = page}
        first == CHOOSE p \in places :
                    \A q \in places : p[1] < q[1] \/ (p[1] = q[1] /\ p[2] <= q[2])
    IN  first[1] * 10 + first[2]

(* the members that have the page, in member order *)
MembersWithPage(members, page) ==
    SelectSeq(members, LAMBDA m : Contains(MapGet(keywordMap, m).pages, page))

RECURSIVE SumImpressionsOf(_)
SumImpressionsOf(members) ==
    IF members = <<>> THEN 0
    ELSE MapGet(keywordMap, Head(members)).impressions + SumImpressionsOf(Tail(members))

RECURSIVE SumClicksOf(_)
SumClicksOf(members) ==
    IF members = <<>> THEN 0
    ELSE MapGet(keywordMap, Head(members)).clicks + SumClicksOf(Tail(members))

RECURSIVE PositionSamplesOf(_)
PositionSamplesOf(members) ==
    IF members = <<>> THEN <<>>
    ELSE MapGet(keywordMap, Head(members)).positions \o PositionSamplesOf(Tail(members))

RECURSIVE CtrSamplesOf(_)
CtrSamplesOf(members) ==
    IF members = <<>> THEN <<>>
    ELSE MapGet(keywordMap, Head(members)).ctrs \o CtrSamplesOf(Tail(members))

Mean(samples) ==
    IF samples = <<>> THEN RInt(0) ELSE RDivInt(RSum(samples), Len(samples))

(* 0.6 * impressions + 5 * clicks - 50 * avgPosition + 1000 * avgCtr over the
   members that have the page *)
PageScore(members, page) ==
    LET having == MembersWithPage(members, page)
        plus == RAdd(RAdd(Rat(6 * SumImpressionsOf(having), 10),
                          RInt(5 * SumClicksOf(having))),
                     RMulInt(Mean(CtrSamplesOf(having)), 1000))
    IN  RSub(plus, RMulInt(Mean(PositionSamplesOf(having)), 50))

(* C12: the mapped page of a returned cluster is of type existing exactly
   when a member has an observed page; its url is then a page of the cluster
   whose score 0.6 * impressions + 5 * clicks - 50 * avgPosition +
   1000 * avgCtr, over the members that have the page, is maximal, and every
   page aggregated before it has a strictly smaller score; with no page the
   type is new. *)
C12_MappedPageIsBestScoringPage ==
    Returned =>
        \A c \in 1..Len(ResultClusters) :
            LET mapped == ResultClusters[c].mappedPage
                members == Members(ResultClusters[c])
                pages == ClusterPages(members)
            IN  IF pages = {}
                THEN mapped.type = "new"
                ELSE /\ mapped.type = "existing"
                     /\ mapped.url \in pages
                     /\ \A p \in pages :
                           /\ RLeq(PageScore(members, p), PageScore(members, mapped.url))
                           /\ FirstAggregatedAt(members, p)
                                 < FirstAggregatedAt(members, mapped.url)
                              => RLess(PageScore(members, p),
                                       PageScore(members, mapped.url))

(* a cluster whose best page is not the first aggregated one and ties with a
   later page, beside a cluster without any page *)
C12_Witness ==
    /\ Returned
    /\ \E c \in 1..Len(ResultClusters) :
          LET mapped == ResultClusters[c].mappedPage
              members == Members(ResultClusters[c])
          IN  /\ mapped.type = "existing"
              /\ \E p, q \in ClusterPages(members) :
                    /\ FirstAggregatedAt(members, p)
                          < FirstAggregatedAt(members, mapped.url)
                    /\ FirstAggregatedAt(members, mapped.url)
                          < FirstAggregatedAt(members, q)
                    /\ PageScore(members, q) = PageScore(members, mapped.url)
    /\ \E c \in 1..Len(ResultClusters) : ResultClusters[c].mappedPage.type = "new"

(* C13: the suggested slug of a returned cluster without page data is "/"
   followed by the first three tokens of the first member keyword joined by
   hyphens, the tokens being those tokenize produces (stopwords and tokens of
   one character left out), not the raw space-separated words. *)
C13_SlugFromFilteredTokens ==
    Returned =>
        \A c \in 1..Len(ResultClusters) :
            ResultClusters[c].mappedPage.type = "new" =>
                ResultClusters[c].mappedPage.suggestedSlug =
                    <<"/">> \o Join(Slice0(tokenize(Members(ResultClusters[c])[1]), 3), "-")

(* ---- the recommendations of a cluster ---- *)

UpdateMessage(label) ==
    [text |-> "Update page for \"{label}\" with FAQs and subtopics.", label |-> label]

CreateMessage(label) ==
    [text |-> "Create a new page targeting \"{label}\".", label |-> label]

ImproveMessage(label) ==
    [text |-> "Improve meta title for \"{label}\" to boost CTR.", label |-> label]

LinksMessage == [text |-> "Add internal links from related pages.", label |-> <<>>]

When(condition, message) == IF condition THEN <<message>> ELSE <<>>

(* C14: the recommendations of a returned cluster are, in this order, the
   Update message iff the mapped page is existing and 5 < avgPosition < 15,
   the Create message iff the mapped page is new and avgPosition > 15, the
   Improve message iff avgCtr < 0.02 and avgPosition <= 5, and always the
   internal links message last; a cluster without position samples
   (avgPosition = 0) has no Create message. *)
C14_RecommendationsInOrder ==
    Returned =>
        \A c \in 1..Len(ResultClusters) :
            LET rec == ResultClusters[c]
                position == rec.rollup.avgPosition
                ctr == rec.rollup.avgCtr
                type == rec.mappedPage.type
            IN  /\ rec.recommendations =
                      When(type = "existing" /\ RLess(RInt(5), position)
                                             /\ RLess(position, RInt(15)),
                           UpdateMessage(rec.label))
                      \o When(type = "new" /\ RLess(RInt(15), position),
                              CreateMessage(rec.label))
                      \o When(RLess(ctr, Rat(1, 50)) /\ ~RLess(RInt(5), position),
                              ImproveMessage(rec.label))
                      \o <<LinksMessage>>
                /\ position = RInt(0) =>
                      ~Contains(rec.recommendations, CreateMessage(rec.label))

(* one result with a cluster told to update its page, a cluster told to
   create a page, and a cluster of expansion terms only, at position 0, told
   to improve its title and not to create a page *)
C14_Witness ==
    /\ Returned
    /\ \E c \in 1..Len(ResultClusters) :
          ResultClusters[c].recommendations =
              <<UpdateMessage(ResultClusters[c].label), LinksMessage>>
    /\ \E c \in 1..Len(ResultClusters) :
          ResultClusters[c].recommendations =
              <<CreateMessage(ResultClusters[c].label), LinksMessage>>
    /\ \E c \in 1..Len(ResultClusters) :
          /\ ResultClusters[c].rollup.avgPosition = RInt(0)
          /\ ResultClusters[c].mappedPage.type = "new"
          /\ ResultClusters[c].recommendations =
                <<ImproveMessage(ResultClusters[c].label), LinksMessage>>

(* ---- the representative keyword of a cluster ---- *)

ImpressionsOf(keyword) == MapGet(keywordMap, keyword).impressions

(* C15: the representative keyword of a returned cluster is a member of the
   cluster whose impressions are maximal among the members, and every member
   that comes before it in the member order has strictly fewer impressions. *)
C15_RepresentativeHasMostImpressions ==
    Returned =>
        \A c \in 1..Len(ResultClusters) :
            LET members == Members(ResultClusters[c])
                representative == ResultClusters[c].representativeKeyword
            IN  /\ Contains(members, representative)
                /\ \A i \in 1..Len(members) :
                      /\ ImpressionsOf(members[i]) <= ImpressionsOf(representative)
                      /\ i < PositionIn(members, representative)
                         => ImpressionsOf(members[i]) < ImpressionsOf(representative)

(* one result with a cluster whose second member has the most impressions
   and represents it, and a cluster whose two members tie, represented by
   the first *)
C15_Witness ==
    /\ Returned
    /\ \E c \in 1..Len(ResultClusters) :
          LET members == Members(ResultClusters[c])
          IN  /\ Len(members) = 2
              /\ ResultClusters[c].representativeKeyword = members[2]
              /\ ImpressionsOf(members[1]) < ImpressionsOf(members[2])
    /\ \E c \in 1..Len(ResultClusters) :
          LET members == Members(ResultClusters[c])
          IN  /\ Len(members) = 2
              /\ ResultClusters[c].representativeKeyword = members[1]
              /\ ImpressionsOf(members[1]) = ImpressionsOf(members[2])

(* ---- the label of a cluster ---- *)

(* the adjacent two-token bigrams of one keyword, left to right *)
BigramsOf(keyword) ==
    LET tokens == tokenize(keyword)
    IN  [i \in 1..(IF Len(tokens) > 1 THEN Len(tokens) - 1 ELSE 0) |->
            tokens[i] \o <<" ">> \o tokens[i + 1]]

(* the bigrams of the members in the order in which they are met *)
BigramsOfAll(members) == Flatten([i \in 1..Len(members) |-> BigramsOf(members[i])])

Occurrences(s, e) == Cardinality({i \in 1..Len(s) : s[i] = e})

(* C16: the label of a returned cluster is the adjacent two-token bigram that
   occurs most often over the token sequences of the members, and every
   bigram met before it (members in order, tokens left to right) occurs
   strictly less often; when no member has two tokens the label is the first
   member keyword. *)
C16_LabelIsMostCommonBigram ==
    Returned =>
        \A c \in 1..Len(ResultClusters) :
            LET members == Members(ResultClusters[c])
                label == ResultClusters[c].label
                bigrams == BigramsOfAll(members)
            IN  IF bigrams = <<>>
                THEN label = members[1]
                ELSE /\ Contains(bigrams, label)
                     /\ \A i \in 1..Len(bigrams) :
                           /\ Occurrences(bigrams, bigrams[i]) <= Occurrences(bigrams, label)
                           /\ i < PositionIn(bigrams, label)
                              => Occurrences(bigrams, bigrams[i])
                                    < Occurrences(bigrams, label)

(* one result with a cluster whose label occurs twice, ties with a later
   bigram and is not the first bigram met, and a cluster of one token
   labelled by its keyword *)
C16_Witness ==
    /\ Returned
    /\ \E c \in 1..Len(ResultClusters) :
          LET bigrams == BigramsOfAll(Members(ResultClusters[c]))
              label == ResultClusters[c].label
          IN  /\ bigrams # <<>>
              /\ bigrams[1] # label
              /\ Occurrences(bigrams, label) = 2
              /\ \E i \in 1..Len(bigrams) :
                    /\ bigrams[i] # label
                    /\ Occurrences(bigrams, bigrams[i]) = 2
    /\ \E c \in 1..Len(ResultClusters) :
          /\ BigramsOfAll(Members(ResultClusters[c])) = <<>>
          /\ ResultClusters[c].label = Members(ResultClusters[c])[1]

(***************************************************************************)
(* The rate limiter.  buckets is the module's Map from key to BucketState; *)
(* now is what Date.now() returns, in milliseconds; the quotient           *)
(* Math.floor((elapsed / windowMs) * limit) is taken on integers.          *)
(***************************************************************************)
DEFAULT_LIMIT == 10

DEFAULT_WINDOW_MS == 60000

MaxNow == 12000

TickSteps == {3000, 6000}

ToolNames == {"get_keyword_clusters"}

(* one client: the budget is kept per key, and a second key would have a
   bucket of its own *)
Contexts == { [ip |-> "10.0.0.1", userAgent |-> "curl"] }

ExecutorOutcomes == {"data", "UpstreamError"}

MapSet(map, key, value) ==
    IF MapHas(map, key)
    THEN [map EXCEPT ![MapIndex(map, key)].value = value]
    ELSE Append(map, [key |-> key, value |-> value])

(* a refill without Math.min(limit, ...) *)
consumeRateLimit_NoCap(key, weight, limit, windowMs) ==
    LET bucket == IF MapHas(buckets, key) THEN MapGet(buckets, key)
                  ELSE [tokens |-> limit, updatedAt |-> now]
        elapsed == now - bucket.updatedAt
        tokensToAdd == (elapsed * limit) \div windowMs
        refilled == IF tokensToAdd > 0
                    THEN [tokens |-> bucket.tokens + tokensToAdd, updatedAt |-> now]
                    ELSE bucket
        taken == [tokens |-> refilled.tokens - weight, updatedAt |-> now]
    IN  IF refilled.tokens < weight
        THEN [buckets |-> MapSet(buckets, key, refilled),
              result |-> [success |-> FALSE, limit |-> limit,
                          remaining |-> Max2(0, refilled.tokens),
                          reset |-> refilled.updatedAt + windowMs]]
        ELSE [buckets |-> MapSet(buckets, key, taken),
              result |-> [success |-> TRUE, limit |-> limit,
                          remaining |-> taken.tokens,
                          reset |-> now + windowMs]]

(* returns the Map after the call with the RateLimitResult *)
consumeRateLimit(key, weight, limit, windowMs) ==
    LET bucket == IF MapHas(buckets, key) THEN MapGet(buckets, key)
                  ELSE [tokens |-> limit, updatedAt |-> now]
        elapsed == now - bucket.updatedAt
        tokensToAdd == (elapsed * limit) \div windowMs
        refilled == IF tokensToAdd > 0
                    THEN [tokens |-> Min2(limit, bucket.tokens + tokensToAdd),
                          updatedAt |-> now]
                    ELSE bucket
        taken == [tokens |-> refilled.tokens - weight, updatedAt |-> now]
    IN  IF refilled.tokens < weight
        THEN [buckets |-> MapSet(buckets, key, refilled),
              result |-> [success |-> FALSE, limit |-> limit,
                          remaining |-> Max2(0, refilled.tokens),
                          reset |-> refilled.updatedAt + windowMs]]
        ELSE [buckets |-> MapSet(buckets, key, taken),
              result |-> [success |-> TRUE, limit |-> limit,
                          remaining |-> taken.tokens,
                          reset |-> now + windowMs]]

(* `tool:${[tool, context.ip, context.userAgent].filter(Boolean).join(':')}` *)
RateLimitKey(tool, context) ==
    LET keyParts == SelectSeq(<<tool, context.ip, context.userAgent>>,
                              LAMBDA part : part # "")
    IN  <<"tool">> \o (IF keyParts # <<>> THEN keyParts ELSE <<"anonymous", tool>>)

applyRateLimit(tool, context, weight) ==
    LET rate == consumeRateLimit(RateLimitKey(tool, context), weight,
                                 DEFAULT_LIMIT, DEFAULT_WINDOW_MS)
        meta == [limit |-> rate.result.limit, remaining |-> rate.result.remaining,
                 reset |-> rate.result.reset]
    IN  IF ~rate.result.success
        THEN [buckets |-> rate.buckets, success |-> FALSE,
              response |-> [ok |-> FALSE, code |-> "RATE_LIMIT_EXCEEDED", details |-> meta]]
        ELSE [buckets |-> rate.buckets, success |-> TRUE, meta |-> meta]

rateLimitCodes ==
    [code \in {"RATE_LIMIT_EXCEEDED", "INVALID_ARGUMENT", "BAD_REQUEST", "NOT_FOUND",
               "UPSTREAM_ERROR"} |->
        CASE code = "RATE_LIMIT_EXCEEDED" -> 429
          [] code \in {"INVALID_ARGUMENT", "BAD_REQUEST"} -> 400
          [] code = "NOT_FOUND" -> 404
          [] code = "UPSTREAM_ERROR" -> 502]

resolveStatusCode(toolResponse) ==
    IF toolResponse.ok THEN 200
    ELSE IF toolResponse.code \in DOMAIN rateLimitCodes
         THEN rateLimitCodes[toolResponse.code]
         ELSE 500

(* time passes between two invocations *)
Tick(step) ==
    /\ now + step <= MaxNow
    /\ now' = now + step
    /\ UNCHANGED <<buckets, executed, response>>
    /\ UNCHANGED clusterVars
    /\ UNCHANGED invocations
    /\ UNCHANGED crawl

(* executeWithRateLimit with the default weight, answered over HTTP: the
   executor runs only when the limiter accepted the call *)
Invoke(tool, context, outcome) ==
    LET rateOutcome == applyRateLimit(tool, context, 1)
        key == RateLimitKey(tool, context)
        toolResponse ==
            IF ~rateOutcome.success THEN rateOutcome.response
            ELSE IF outcome = "data"
                 THEN [ok |-> TRUE, code |-> "", details |-> rateOutcome.meta]
                 ELSE [ok |-> FALSE, code |-> "UPSTREAM_ERROR", details |-> <<>>]
    IN  /\ buckets' = rateOutcome.buckets
        /\ executed' = IF rateOutcome.success
                       THEN Append(executed, [key |-> key, at |-> now, weight |-> 1])
                       ELSE executed
        /\ response' = <<[key |-> key, at |-> now, ok |-> toolResponse.ok,
                          code |-> toolResponse.code,
                          status |-> resolveStatusCode(toolResponse),
                          ran |-> rateOutcome.success]>>
        /\ UNCHANGED now
        /\ UNCHANGED clusterVars
        /\ UNCHANGED invocations
        /\ UNCHANGED crawl

NextRateLimit ==
    \/ \E step \in TickSteps : Tick(step)
    \/ \E tool \in ToolNames, context \in Contexts, outcome \in ExecutorOutcomes :
          Invoke(tool, context, outcome)

SpecRateLimit == Init /\ [][NextRateLimit]_vars

(* ---- the budget of one key ---- *)

RECURSIVE SumWeights(_)
SumWeights(log) == IF log = <<>> THEN 0 ELSE Head(log).weight + SumWeights(Tail(log))

(* the weight accepted for key within the interval [from, from + 60 s) *)
AcceptedWithin(key, from) ==
    SumWeights(SelectSeq(executed,
                         LAMBDA run : /\ run.key = key
                                      /\ from <= run.at
                                      /\ run.at < from + DEFAULT_WINDOW_MS))

(* C17: for every key no more than 10 units of request weight are accepted
   within any interval of 60 seconds, and an invocation that finds the budget
   of its interval spent is answered RATE_LIMIT_EXCEEDED with status 429 and
   does not run the tool. *)
C17_AtMostTenPerMinute ==
    /\ \A i \in 1..Len(executed) :
          AcceptedWithin(executed[i].key, executed[i].at) <= DEFAULT_LIMIT
    /\ response # <<>> =>
          \/ response[1].ran /\ AcceptedWithin(response[1].key, 0) <= DEFAULT_LIMIT
          \/ ~response[1].ran /\ response[1].code = "RATE_LIMIT_EXCEEDED"
                              /\ response[1].status = 429

(* C18: a cluster mapped to an existing page whose rollup has sumImpressions
   18400, avgCtr 0.045 and avgPosition 6.2 is reported with priority 78, and
   its recommendations are the Update message followed by the internal links
   message, as in the documented example result. *)
C18_DocumentedExamplePriority ==
    (/\ ret # <<>>
     /\ call.sumImpressions = 18400
     /\ call.avgCtr = Rat(45, 1000)
     /\ call.avgPosition = Rat(31, 5)
     /\ call.mappedType = "existing")
    => /\ ret[1] = 78
       /\ \A label \in {<<"s", "o", "l", "a", "r">>} :
             recommendationMessages(call.mappedType, call.avgPosition, call.avgCtr, label)
                = <<UpdateMessage(label), LinksMessage>>

(***************************************************************************)
(* The similarity of one pair: the call from the merge of two rows to the  *)
(* pairwise loop, on rows of queries that are near-duplicates, share       *)
(* tokens, share a page or share nothing:                                  *)
(* "buy solar panels", "buy solar panel", "weather forecast",              *)
(* "solar panel cost", "aa bb cc dd", "bb cc dd ee", "aa bb cc",           *)
(* "aa bb dd", "abcdefgh", "abcdefgi".                                     *)
(***************************************************************************)
SimilarityRowPool ==
    { Row(<<"b", "u", "y", " ", "s", "o", "l", "a", "r", " ", "p", "a", "n", "e", "l", "s">>,
          "/p1", 5, 100, Rat(1, 20), Rat(31, 5)),
      Row(<<"b", "u", "y", " ", "s", "o", "l", "a", "r", " ", "p", "a", "n", "e", "l">>,
          "/p1", 3, 80, Rat(1, 25), Rat(7, 1)),
      Row(<<"w", "e", "a", "t", "h", "e", "r", " ", "f", "o", "r", "e", "c", "a", "s", "t">>,
          "/p2", 1, 40, Rat(1, 40), Rat(9, 1)),
      Row(<<"s", "o", "l", "a", "r", " ", "p", "a", "n", "e", "l", " ", "c", "o", "s", "t">>,
          "/p2", 2, 60, Rat(1, 30), Rat(8, 1)),
      Row(<<"a", "a", " ", "b", "b", " ", "c", "c", " ", "d", "d">>,
          "/p3", 5, 100, Rat(1, 20), Rat(6, 1)),
      Row(<<"b", "b", " ", "c", "c", " ", "d", "d", " ", "e", "e">>,
          "", 0, 10, Rat(1, 10), Rat(12, 1)),
      Row(<<"a", "a", " ", "b", "b", " ", "c", "c">>,
          "/p3", 1, 20, Rat(1, 20), Rat(4, 1)),
      Row(<<"a", "a", " ", "b", "b", " ", "d", "d">>,
          "", 1, 30, Rat(1, 30), Rat(3, 1)),
      Row(<<"a", "b", "c", "d", "e", "f", "g", "h">>,
          "/p3", 0, 5, Rat(1, 5), Rat(2, 1)),
      Row(<<"a", "b", "c", "d", "e", "f", "g", "i">>,
          "/p3", 0, 5, Rat(1, 5), Rat(2, 1)) }

RowPairs == {rows \in DistinctSeqs(SimilarityRowPool, 2) : Len(rows) = 2}

(* getKeywordClusters after the await, Search Console having delivered two
   rows and autocomplete nothing *)
InitSimilarity ==
    /\ pc = "mergeRows"
    /\ input = [query |-> <<"a", "b">>, includeAutocomplete |-> FALSE,
                maxKeywords |-> DefaultMaxKeywords]
    /\ gscRows \in RowPairs
    /\ gsc = [state |-> "fulfilled", value |-> gscRows, called |-> TRUE]
    /\ ac = [state |-> "fulfilled", value |-> <<>>, called |-> TRUE]
    /\ autocompleteSeeds = <<>>
    /\ keywordMap = <<>>
    /\ keywords = <<>>
    /\ edges = <<>>
    /\ parent = <<>>
    /\ clusters = <<>>
    /\ result = <<>>
    /\ InitLimiter
    /\ NoInvocations
    /\ NoCrawl
    /\ call = [fn |-> "none"]
    /\ ret = <<>>

NextSimilarity == MergeRowsStep \/ MergeSeedsStep \/ SimilarityStep

SpecSimilarity == InitSimilarity /\ [][NextSimilarity]_vars

(* ---- the three signals of a pair ---- *)

TokenSet(keyword) == Range(tokenize(keyword))

JaccardOf(a, b) ==
    IF TokenSet(a) \cap TokenSet(b) = {} THEN RInt(0)
    ELSE Rat(Cardinality(TokenSet(a) \cap TokenSet(b)),
             Cardinality(TokenSet(a) \cup TokenSet(b)))

PagesOf(keyword) == Range(MapGet(keywordMap, keyword).pages)

TokenSignal(a, b) ==
    IF RLeq(Rat(6, 10), JaccardOf(a, b)) THEN JaccardOf(a, b) ELSE RInt(0)

PageSignal(a, b) ==
    IF PagesOf(a) \cap PagesOf(b) # {} THEN Rat(3, 10) ELSE RInt(0)

EditSignal(a, b) ==
    IF RLeq(levenshteinNorm(a, b), Rat(15, 100)) /\ RLeq(Rat(4, 10), JaccardOf(a, b))
    THEN Rat(7, 10)
    ELSE RInt(0)

MaxSignal(a, b) == RMax(RMax(TokenSignal(a, b), PageSignal(a, b)), EditSignal(a, b))

SimilarityDone == pc = "union"

BuySolarPanels == <<"b", "u", "y", " ", "s", "o", "l", "a", "r", " ", "p", "a", "n", "e", "l", "s">>

BuySolarPanel == <<"b", "u", "y", " ", "s", "o", "l", "a", "r", " ", "p", "a", "n", "e", "l">>

WeatherForecast == <<"w", "e", "a", "t", "h", "e", "r", " ", "f", "o", "r", "e", "c", "a", "s", "t">>

SolarPanelCost == <<"s", "o", "l", "a", "r", " ", "p", "a", "n", "e", "l", " ", "c", "o", "s", "t">>

(* C19: after the pairwise loop two distinct keywords of the truncated set
   have an edge if and only if the maximum of the three signals is at least
   0.6: the Jaccard index of their tokens when it is at least 0.6, 0.3 when
   both have pages and share one, 0.7 when the normalized edit distance is at
   most 0.15 and the Jaccard index at least 0.4; that is, if and only if the
   Jaccard index is at least 0.6 or the edit distance at most 0.15 with a
   Jaccard index of at least 0.4.  "buy solar panels" and "buy solar panel"
   are linked, "weather forecast" and "solar panel cost" are not. *)
C19_EdgeIffSignalReachesThreshold ==
    SimilarityDone =>
        /\ \A a, b \in Range(keywords) :
              a # b =>
                 /\ Adjacent(a, b) <=> RLeq(Rat(6, 10), MaxSignal(a, b))
                 /\ Adjacent(a, b) <=>
                       \/ RLeq(Rat(6, 10), JaccardOf(a, b))
                       \/ /\ RLeq(levenshteinNorm(a, b), Rat(15, 100))
                          /\ RLeq(Rat(4, 10), JaccardOf(a, b))
        /\ {BuySolarPanels, BuySolarPanel} \subseteq Range(keywords)
              => Adjacent(BuySolarPanels, BuySolarPanel)
        /\ {WeatherForecast, SolarPanelCost} \subseteq Range(keywords)
              => ~Adjacent(WeatherForecast, SolarPanelCost)

(* the near-duplicates of the example, linked by their edit distance alone:
   their Jaccard index is below 0.6 *)
C19_Witness ==
    /\ SimilarityDone
    /\ keywords = <<BuySolarPanels, BuySolarPanel>>
    /\ Adjacent(BuySolarPanels, BuySolarPanel)
    /\ Adjacent(BuySolarPanel, BuySolarPanels)
    /\ JaccardOf(BuySolarPanels, BuySolarPanel) = Rat(1, 2)
    /\ levenshteinNorm(BuySolarPanels, BuySolarPanel) = Rat(1, 16)
    /\ PageSignal(BuySolarPanels, BuySolarPanel) = Rat(3, 10)

(***************************************************************************)
(* The union calls in any order.  The loop over Object.entries(edges)      *)
(* makes one call of union per neighbour; here the calls of a fixed edge   *)
(* set are made one at a time, in any order and in either orientation,     *)
(* before the clusters are materialized.  call.pending holds the edges     *)
(* whose call is still to come.                                            *)
(***************************************************************************)
UnionKeywords == << <<"k", "a">>, <<"k", "b">>, <<"k", "c">>, <<"k", "d">> >>

(* the pairs i < j of the pairwise loop, in its order *)
UnionPairs ==
    << <<1, 2>>, <<1, 3>>, <<1, 4>>, <<2, 3>>, <<2, 4>>, <<3, 4>> >>

(* the edges object the pairwise loop leaves when the pairs of chosen reach
   the threshold *)
RECURSIVE EdgesOfPairs(_, _, _)
EdgesOfPairs(chosen, p, edgesSoFar) ==
    IF p > Len(UnionPairs) THEN edgesSoFar
    ELSE LET next == IF p \in chosen
                     THEN AddEdge(edgesSoFar, UnionKeywords[UnionPairs[p][1]],
                                  UnionKeywords[UnionPairs[p][2]])
                     ELSE edgesSoFar
         IN  Strict(next, EdgesOfPairs(chosen, p + 1, next))

(* getKeywordClusters after parent[keyword] = keyword, before the first
   call of union *)
InitUnion ==
    /\ pc = "union"
    /\ input = [query |-> <<"a", "b">>, includeAutocomplete |-> FALSE,
                maxKeywords |-> DefaultMaxKeywords]
    /\ gsc = NoPromise
    /\ ac = NoPromise
    /\ gscRows = <<>>
    /\ autocompleteSeeds = <<>>
    /\ keywordMap = <<>>
    /\ keywords = UnionKeywords
    /\ \E chosen \in SUBSET (1..Len(UnionPairs)) :
          /\ edges = EdgesOfPairs(chosen, 1, <<>>)
          /\ call = [fn |-> "union",
                     pending |-> {{UnionKeywords[UnionPairs[p][1]],
                                   UnionKeywords[UnionPairs[p][2]]} : p \in chosen}]
    /\ parent = InitParent(UnionKeywords)
    /\ clusters = <<>>
    /\ result = <<>>
    /\ InitLimiter
    /\ NoInvocations
    /\ NoCrawl
    /\ ret = <<>>

(* union(a, b) for an edge not yet processed *)
UnionCall(a, b) ==
    /\ pc = "union"
    /\ call.fn = "union"
    /\ {a, b} \in call.pending
    /\ parent' = union(parent, a, b)
    /\ call' = [call EXCEPT !.pending = @ \ {{a, b}}]
    /\ UNCHANGED limiterVars
    /\ UNCHANGED invocations
    /\ UNCHANGED crawl
    /\ UNCHANGED <<ret, pc, input, gsc, ac, gscRows, autocompleteSeeds, keywordMap,
                   keywords, edges, clusters, result>>

(* the loop over the edges has ended *)
UnionDone ==
    /\ pc = "union"
    /\ call.fn = "union"
    /\ call.pending = {}
    /\ pc' = "materialize"
    /\ UNCHANGED limiterVars
    /\ UNCHANGED invocations
    /\ UNCHANGED crawl
    /\ UNCHANGED <<call, ret, input, gsc, ac, gscRows, autocompleteSeeds, keywordMap,
                   keywords, edges, parent, clusters, result>>

NextUnion ==
    \/ \E a, b \in Range(UnionKeywords) : UnionCall(a, b)
    \/ UnionDone
    \/ MaterializeStep

SpecUnion == InitUnion /\ [][NextUnion]_vars

(* ---- the partition the clusters make ---- *)

PartitionOf(lists) == {Range(lists[i]) : i \in 1..Len(lists)}

(* what the loop over Object.entries(edges) and the materialization leave *)
InEntriesOrder ==
    Materialize([parent |-> UnionEdges(InitParent(keywords), edges), map |-> <<>>],
                keywords)

UnionsDone == pc = "aggregate" /\ call.fn = "union"

(* C20: for a fixed keyword set and a fixed edge set, the union calls made in
   any order and in any orientation leave the same partition of the keywords
   into clusters: the one the loop over the entries of edges leaves, whose
   blocks are the connected components of the edges. *)
C20_UnionOrderDoesNotMatter ==
    UnionsDone =>
        /\ PartitionOf(clusters) = PartitionOf(ClusterLists(InEntriesOrder.map))
        /\ PartitionOf(clusters) = {ReachFrom({k}) : k \in Range(keywords)}

(* the unions of a chain of three edges made in an order that leaves another
   parent table than the loop over the entries does, for a cluster of all
   four keywords *)
C20_Witness ==
    /\ UnionsDone
    /\ Len(edges) = 4
    /\ \E k \in Range(keywords) : Len(edges[EdgesIndex(edges, k)].neighbours) = 1
    /\ Len(clusters) = 1
    /\ parent # InEntriesOrder.parent

(* ---- the averages of the rollup ---- *)

REq(x, y) == x.n * y.d = y.n * x.d

(* the mean of the means of the sample lists that are not empty, 0 when all
   are empty *)
MeanOfMeans(sampleLists) ==
    LET sampled == SelectSeq(sampleLists, LAMBDA samples : samples # <<>>)
    IN  IF sampled = <<>> THEN RInt(0)
        ELSE RDivInt(RSum([i \in 1..Len(sampled) |-> Mean(sampled[i])]), Len(sampled))

CtrSamplesPerMember(members) ==
    [i \in 1..Len(members) |-> MapGet(keywordMap, members[i]).ctrs]

PositionSamplesPerMember(members) ==
    [i \in 1..Len(members) |-> MapGet(keywordMap, members[i]).positions]

(* C21: the avgCtr of the rollup of a returned cluster is the unweighted mean
   of the CTR averages of the members that have a CTR sample, each such
   member counted once whatever its number of samples, and 0 when no member
   has one; avgPosition is the same over the position samples. *)
C21_RollupAveragesAreMeansOfMemberMeans ==
    Returned =>
        \A c \in 1..Len(ResultClusters) :
            LET members == Members(ResultClusters[c])
                rollup == ResultClusters[c].rollup
            IN  /\ REq(rollup.avgCtr, MeanOfMeans(CtrSamplesPerMember(members)))
                /\ REq(rollup.avgPosition,
                       MeanOfMeans(PositionSamplesPerMember(members)))

(* a cluster of two members, one with two samples, whose averages differ
   from the means over all the samples, beside a cluster without samples *)
C21_Witness ==
    /\ Returned
    /\ \E c \in 1..Len(ResultClusters) :
          LET members == Members(ResultClusters[c])
              rollup == ResultClusters[c].rollup
          IN  /\ Len(members) = 2
              /\ Len(CtrSamplesOf(members)) = 3
              /\ ~REq(rollup.avgCtr, Mean(CtrSamplesOf(members)))
              /\ ~REq(rollup.avgPosition, Mean(PositionSamplesOf(members)))
    /\ \E c \in 1..Len(ResultClusters) :
          /\ CtrSamplesOf(Members(ResultClusters[c])) = <<>>
          /\ ResultClusters[c].rollup.avgCtr = RInt(0)
          /\ ResultClusters[c].rollup.avgPosition = RInt(0)

(* ---- the two fetches of one call ---- *)

Completed(promise) == promise.state \in {"fulfilled", "rejected"}

ExpansionWanted == input.includeAutocomplete /\ input.query # <<>>

Called == pc # "idle"

PastAwait ==
    pc \in {"mergeRows", "mergeSeeds", "similarity", "union", "materialize",
            "aggregate", "returned"}

(* C22: within one call the analytics fetch and, when includeAutocomplete is
   true and the query is not empty, the expansion fetch are both started
   before either has completed; no merge, similarity or clustering step runs
   before both have completed successfully; and when includeAutocomplete is
   false or the query is empty, fetchAutocomplete is never called. *)
C22_FetchesStartTogetherAndAreAwaited ==
    /\ Called /\ ExpansionWanted /\ Completed(gsc) => ac.called
    /\ Called /\ ac.called /\ Completed(ac) => gsc.called
    /\ PastAwait => /\ gsc.called /\ gsc.state = "fulfilled"
                    /\ ac.state = "fulfilled"
                    /\ ExpansionWanted => ac.called
    /\ ~PastAwait => /\ keywordMap = <<>> /\ keywords = <<>> /\ edges = <<>>
                     /\ clusters = <<>> /\ result = <<>>
    /\ Called /\ ~ExpansionWanted => ~ac.called

(* the analytics fetch has completed while the expansion fetch, started with
   it, is still running, and no step has run *)
C22_Witness ==
    /\ pc = "await"
    /\ ExpansionWanted
    /\ gsc.state = "fulfilled" /\ gsc.value # <<>>
    /\ ac.called /\ ac.state = "pending"
    /\ keywordMap = <<>>

(***************************************************************************)
(* Two calls of getKeywordClusters side by side.  invocations[i] holds the *)
(* locals of call i: what the await delivered, keywordMap, keywords,       *)
(* edges, parent, clusters and the value returned.  The steps after the    *)
(* await of one call run without a break in the program; here a step of   *)
(* the other call may come between any two of them.                        *)
(***************************************************************************)
InvocationIds == {1, 2}

(* "Ab  Cd" and "ab cd ef", one token apart *)
InterleavedRowPool ==
    { Row(<<"A", "b", " ", " ", "C", "d">>, "", 2, 1000, Rat(0, 1), Rat(20, 1)),
      Row(<<"a", "b", " ", "c", "d", " ", "e", "f">>, "/p1", 5, 100, Rat(1, 20),
          Rat(31, 5)) }

(* nothing, or "AB cd gh" *)
InterleavedSeedLists ==
    { <<>>, << <<"A", "B", " ", "c", "d", " ", "g", "h">> >> }

NotCalled ==
    [pc |-> "idle", maxKeywords |-> DefaultMaxKeywords, gscRows |-> <<>>,
     autocompleteSeeds |-> <<>>, keywordMap |-> <<>>, keywords |-> <<>>,
     edges |-> <<>>, parent |-> <<>>, clusters |-> <<>>, result |-> <<>>]

(* the locals of call i: each call has its own *)
LocalsOf(i) == invocations[i]

(* one keywordMap at module level, that of the first call, read by both *)
KeywordMapOf_ModuleLevel(i) == invocations[1].keywordMap

(* const keywordMap = new Map() is a local of the call *)
KeywordMapOf(i) == LocalsOf(i).keywordMap

InitInterleaved ==
    /\ pc = "idle"
    /\ input = [query |-> <<>>, includeAutocomplete |-> TRUE, maxKeywords |-> 1]
    /\ gsc = NoPromise
    /\ ac = NoPromise
    /\ gscRows = <<>>
    /\ autocompleteSeeds = <<>>
    /\ keywordMap = <<>>
    /\ keywords = <<>>
    /\ edges = <<>>
    /\ parent = <<>>
    /\ clusters = <<>>
    /\ result = <<>>
    /\ InitLimiter
    /\ call = [fn |-> "none"]
    /\ ret = <<>>
    /\ invocations = [i \in InvocationIds |-> NotCalled]
    /\ NoCrawl

(* a step of call i: its locals become next, nothing else changes *)
StepOf(i, next) ==
    /\ invocations' = [invocations EXCEPT ![i] = next]
    /\ UNCHANGED limiterVars
    /\ UNCHANGED clusterVars
    /\ UNCHANGED crawl

(* const [gscRows, autocompleteSeeds] = await Promise.all([...]) *)
AwaitFulfilledOf(i, rows, seeds) ==
    /\ LocalsOf(i).pc = "idle"
    /\ StepOf(i, [LocalsOf(i) EXCEPT !.pc = "mergeRows", !.gscRows = rows,
                                     !.autocompleteSeeds = seeds])

MergeRowsOf(i) ==
    /\ LocalsOf(i).pc = "mergeRows"
    /\ StepOf(i, [LocalsOf(i) EXCEPT !.pc = "mergeSeeds",
                                     !.keywordMap = MergeRows(<<>>, LocalsOf(i).gscRows)])

MergeSeedsOf(i) ==
    /\ LocalsOf(i).pc = "mergeSeeds"
    /\ StepOf(i, [LocalsOf(i) EXCEPT
                     !.pc = "similarity",
                     !.keywordMap = MergeSeeds(KeywordMapOf(i),
                                               LocalsOf(i).autocompleteSeeds)])

SimilarityOf(i) ==
    /\ LocalsOf(i).pc = "similarity"
    /\ LET truncated == TruncatedKeys(KeywordMapOf(i), LocalsOf(i).maxKeywords)
       IN  StepOf(i, [LocalsOf(i) EXCEPT
                         !.pc = "union",
                         !.keywords = truncated,
                         !.edges = BuildEdges(KeywordMapOf(i), truncated,
                                              1, 2, <<>>)])

UnionOf(i) ==
    /\ LocalsOf(i).pc = "union"
    /\ StepOf(i, [LocalsOf(i) EXCEPT
                     !.pc = "materialize",
                     !.parent = UnionEdges(InitParent(LocalsOf(i).keywords),
                                           LocalsOf(i).edges)])

MaterializeOf(i) ==
    /\ LocalsOf(i).pc = "materialize"
    /\ LET st == Materialize([parent |-> LocalsOf(i).parent, map |-> <<>>],
                             LocalsOf(i).keywords)
       IN  StepOf(i, [LocalsOf(i) EXCEPT !.pc = "aggregate",
                                         !.parent = st.parent,
                                         !.clusters = ClusterLists(st.map)])

ReturnOf(i) ==
    /\ LocalsOf(i).pc = "aggregate"
    /\ StepOf(i, [LocalsOf(i) EXCEPT
                     !.pc = "returned",
                     !.result = <<ClusterResults(KeywordMapOf(i),
                                                 LocalsOf(i).clusters)>>])

NextInterleaved ==
    \E i \in InvocationIds :
        \/ \E rows \in DistinctSeqs(InterleavedRowPool, MaxRows),
              seeds \in InterleavedSeedLists : AwaitFulfilledOf(i, rows, seeds)
        \/ MergeRowsOf(i)
        \/ MergeSeedsOf(i)
        \/ SimilarityOf(i)
        \/ UnionOf(i)
        \/ MaterializeOf(i)
        \/ ReturnOf(i)

SpecInterleaved == InitInterleaved /\ [][NextInterleaved]_vars

(* ---- one call alone ---- *)

AloneMap(rows, seeds) == MergeSeeds(MergeRows(<<>>, rows), seeds)

AloneKeywords(rows, seeds, maxKeywords) ==
    TruncatedKeys(AloneMap(rows, seeds), maxKeywords)

AloneEdges(rows, seeds, maxKeywords) ==
    BuildEdges(AloneMap(rows, seeds), AloneKeywords(rows, seeds, maxKeywords), 1, 2, <<>>)

AloneClusters(rows, seeds, maxKeywords) ==
    LET ks == AloneKeywords(rows, seeds, maxKeywords)
        unioned == UnionEdges(InitParent(ks), AloneEdges(rows, seeds, maxKeywords))
    IN  ClusterLists(Materialize([parent |-> unioned, map |-> <<>>], ks).map)

AloneResult(rows, seeds, maxKeywords) ==
    ClusterResults(AloneMap(rows, seeds), AloneClusters(rows, seeds, maxKeywords))

After(i, steps) == invocations[i].pc \in steps

(* C23: of two calls whose steps interleave in any way, each has at every
   step the keyword map, the edges and the clusters it has when it runs
   alone on the rows and expansion terms it fetched, and returns the clusters
   it returns alone. *)
C23_InterleavedCallsAreIndependent ==
    \A i \in InvocationIds :
        LET own == invocations[i]
            rows == own.gscRows
            seeds == own.autocompleteSeeds
        IN  /\ After(i, {"similarity", "union", "materialize", "aggregate", "returned"})
                  => own.keywordMap = AloneMap(rows, seeds)
            /\ After(i, {"mergeSeeds"}) => own.keywordMap = MergeRows(<<>>, rows)
            /\ After(i, {"union", "materialize", "aggregate", "returned"})
                  => /\ own.keywords = AloneKeywords(rows, seeds, own.maxKeywords)
                     /\ own.edges = AloneEdges(rows, seeds, own.maxKeywords)
            /\ After(i, {"aggregate", "returned"})
                  => own.clusters = AloneClusters(rows, seeds, own.maxKeywords)
            /\ After(i, {"returned"})
                  => own.result = <<AloneResult(rows, seeds, own.maxKeywords)>>

(* the first call has returned a cluster of three keywords while the second,
   on other rows, is between its steps *)
C23_Witness ==
    /\ invocations[1].pc = "returned"
    /\ \E c \in 1..Len(invocations[1].result[1]) :
          Len(invocations[1].result[1][c].keywords) = 3
    /\ invocations[2].pc = "union"
    /\ invocations[2].keywordMap # <<>>
    /\ invocations[2].keywordMap # invocations[1].keywordMap

(***************************************************************************)
(* fetchAutocomplete.  crawl holds the arguments and the locals of one     *)
(* call: maxDepth, branchFactor, visited, queue, collected, the entry      *)
(* taken from the queue, the abort flag of options.signal, and the log of  *)
(* the requests made to fetchAutocompleteSuggestions.  suggest is what the *)
(* upstream answers for every term; visited and collected are Sets, kept   *)
(* in insertion order.                                                     *)
(***************************************************************************)
Terms == {"q", "a", "b", "c", "s1", "s2", "s3", "s4", "s5", "s6", "s7"}

NoSuggestions == [term \in Terms |-> <<>>]

(* suggestions that refer back to earlier seeds and repeat themselves *)
CyclicUpstream ==
    [NoSuggestions EXCEPT !["q"] = <<"a", "b", "q">>,
                          !["a"] = <<"q", "b", "c">>,
                          !["b"] = <<"a", "a">>,
                          !["c"] = <<"q">>]

(* more suggestions than the default branch factor *)
WideUpstream ==
    [NoSuggestions EXCEPT !["q"] = <<"s1", "s2", "s3", "s4", "s5", "s6", "s7">>,
                          !["s1"] = <<"q", "a">>,
                          !["s2"] = <<"s1", "b">>,
                          !["s6"] = <<"c">>]

ChainUpstream ==
    [NoSuggestions EXCEPT !["q"] = <<"a">>, !["a"] = <<"b">>, !["b"] = <<"c">>,
                          !["c"] = <<"q">>]

Upstreams == {NoSuggestions, CyclicUpstream, WideUpstream, ChainUpstream}

(* the argument depth *)
CrawlDepths == {0, 1, 2, 3}

(* options.branchFactor: absent, or a number *)
BranchFactorOptions == {<<>>, <<0>>, <<1>>, <<2>>}

DefaultBranchFactor == 5

(* the state after the declarations of lines 14-18 *)
CrawlStart(query, depth, branchFactorOption, suggest) ==
    [pc |-> "loop",
     query |-> query,
     depth |-> depth,
     suggest |-> suggest,
     maxDepth |-> Max2(1, depth),
     branchFactor |-> Max2(1, IF branchFactorOption = <<>> THEN DefaultBranchFactor
                              ELSE branchFactorOption[1]),
     visited |-> <<>>,
     queue |-> <<[term |-> query, depth |-> 0]>>,
     collected |-> <<>>,
     current |-> <<>>,
     aborted |-> FALSE,
     requests |-> <<>>,
     returned |-> <<>>]

InitCrawl ==
    /\ pc = "idle"
    /\ input = [query |-> <<>>, includeAutocomplete |-> TRUE, maxKeywords |-> 1]
    /\ gsc = NoPromise
    /\ ac = NoPromise
    /\ gscRows = <<>>
    /\ autocompleteSeeds = <<>>
    /\ keywordMap = <<>>
    /\ keywords = <<>>
    /\ edges = <<>>
    /\ parent = <<>>
    /\ clusters = <<>>
    /\ result = <<>>
    /\ InitLimiter
    /\ NoInvocations
    /\ call = [fn |-> "none"]
    /\ ret = <<>>
    /\ \E depth \in CrawlDepths, option \in BranchFactorOptions, suggest \in Upstreams :
          crawl = CrawlStart("q", depth, option, suggest)

CrawlStep(next) ==
    /\ crawl' = next
    /\ UNCHANGED limiterVars
    /\ UNCHANGED clusterVars
    /\ UNCHANGED invocations

RECURSIVE AddAll(_, _)
AddAll(set, items) ==
    IF items = <<>> THEN set ELSE AddAll(SetAdd(set, Head(items)), Tail(items))

(* for (const seed of nextSeeds) if (!visited.has(seed)) queue.push(...) *)
RECURSIVE PushSeeds(_, _, _, _)
PushSeeds(queue, nextSeeds, visited, nextDepth) ==
    IF nextSeeds = <<>> THEN queue
    ELSE PushSeeds(IF ~Contains(visited, Head(nextSeeds))
                   THEN Append(queue, [term |-> Head(nextSeeds), depth |-> nextDepth])
                   ELSE queue,
                   Tail(nextSeeds), visited, nextDepth)

(* while (queue.length > 0) is false, or options.signal?.aborted: the loop
   ends and Array.from(collected) is returned *)
LoopEnds ==
    /\ crawl # <<>>
    /\ crawl.pc = "loop"
    /\ crawl.queue = <<>> \/ crawl.aborted
    /\ CrawlStep([crawl EXCEPT !.pc = "returned", !.returned = <<crawl.collected>>])

(* queue.shift() of an entry at the depth limit or of a visited term *)
LoopSkips ==
    /\ crawl # <<>>
    /\ crawl.pc = "loop"
    /\ crawl.queue # <<>> /\ ~crawl.aborted
    /\ LET current == Head(crawl.queue)
       IN  /\ current.depth >= crawl.maxDepth \/ Contains(crawl.visited, current.term)
           /\ CrawlStep([crawl EXCEPT !.queue = Tail(crawl.queue)])

(* a loop that requests the term taken from the queue without looking it
   up in visited *)
LoopRequests_Revisits ==
    /\ crawl # <<>>
    /\ crawl.pc = "loop"
    /\ crawl.queue # <<>> /\ ~crawl.aborted
    /\ LET current == Head(crawl.queue)
       IN  /\ current.depth < crawl.maxDepth
           /\ CrawlStep([crawl EXCEPT
                            !.pc = "awaiting",
                            !.queue = Tail(crawl.queue),
                            !.current = <<current>>,
                            !.visited = Append(crawl.visited, current.term),
                            !.requests = Append(crawl.requests,
                                                [term |-> current.term,
                                                 depth |-> current.depth,
                                                 pushed |-> 0])])

(* queue.shift(), visited.add(term) and the call of
   fetchAutocompleteSuggestions(term), which is awaited *)
LoopRequests ==
    /\ crawl # <<>>
    /\ crawl.pc = "loop"
    /\ crawl.queue # <<>> /\ ~crawl.aborted
    /\ LET current == Head(crawl.queue)
       IN  /\ current.depth < crawl.maxDepth
           /\ ~Contains(crawl.visited, current.term)
           /\ CrawlStep([crawl EXCEPT
                            !.pc = "awaiting",
                            !.queue = Tail(crawl.queue),
                            !.current = <<current>>,
                            !.visited = Append(crawl.visited, current.term),
                            !.requests = Append(crawl.requests,
                                                [term |-> current.term,
                                                 depth |-> current.depth,
                                                 pushed |-> 0])])

(* the suggestions arrive: they are collected, and the first branchFactor
   of them are queued when the next depth is below the limit *)
SuggestionsArrive ==
    /\ crawl # <<>>
    /\ crawl.pc = "awaiting"
    /\ LET current == crawl.current[1]
           suggestions == crawl.suggest[current.term]
           nextDepth == current.depth + 1
           queue == IF nextDepth >= crawl.maxDepth THEN crawl.queue
                    ELSE PushSeeds(crawl.queue, Slice0(suggestions, crawl.branchFactor),
                                   crawl.visited, nextDepth)
       IN  CrawlStep([crawl EXCEPT
                         !.pc = "loop",
                         !.collected = AddAll(crawl.collected, suggestions),
                         !.queue = queue,
                         !.requests[Len(crawl.requests)].pushed =
                             Len(queue) - Len(crawl.queue)])

(* the caller aborts options.signal *)
Abort ==
    /\ crawl # <<>>
    /\ crawl.pc \in {"loop", "awaiting"}
    /\ ~crawl.aborted
    /\ CrawlStep([crawl EXCEPT !.aborted = TRUE])

CrawlLoop == LoopEnds \/ LoopSkips \/ LoopRequests \/ SuggestionsArrive

NextCrawl == LoopEnds \/ LoopSkips \/ LoopRequests \/ SuggestionsArrive \/ Abort

SpecCrawl == InitCrawl /\ [][NextCrawl]_vars

(* the upstream answers every request and the loop goes on when it has *)
SpecCrawlFair == SpecCrawl /\ WF_vars(CrawlLoop)

(* ---- the requests of one call ---- *)

CrawlSafe ==
    /\ \A i, j \in 1..Len(crawl.requests) :
          crawl.requests[i].term = crawl.requests[j].term => i = j
    /\ \A i \in 1..Len(crawl.requests) :
          /\ crawl.requests[i].depth < Max2(1, crawl.depth)
          /\ crawl.requests[i].pushed <= crawl.branchFactor
    /\ \A e \in Range(crawl.queue) : e.depth <= Max2(1, crawl.depth)
    /\ crawl.depth = 2 => Len(crawl.requests) <= 1 + crawl.branchFactor

(* C24: fetchAutocomplete returns, whatever finite suggestion lists the
   upstream answers and even when suggestions refer back to earlier seeds:
   it never requests a term twice, never requests a term at depth
   max(1, depth) or deeper, queues at most branchFactor (5 by default)
   suggestions of a fetched term, and so with depth 2 makes at most
   1 + branchFactor requests. *)
C24_CrawlIsBoundedAndReturns ==
    /\ [](crawl # <<>> => CrawlSafe)
    /\ <>(crawl # <<>> /\ crawl.pc = "returned")

(* a call with depth 2 and the default branch factor has returned after
   1 + 5 requests, on an upstream with seven suggestions that refer back to
   the query *)
C24_Witness ==
    /\ crawl # <<>>
    /\ crawl.pc = "returned"
    /\ crawl.depth = 2
    /\ crawl.branchFactor = DefaultBranchFactor
    /\ Len(crawl.requests) = 6
    /\ crawl.requests[1].pushed = 5
    /\ Len(crawl.suggest["q"]) = 7
    /\ Contains(crawl.suggest["s1"], "q")
    /\ ~crawl.aborted

(***************************************************************************)
(* normalize and tokenize on their own: call holds the argument, ret the   *)
(* values returned so far.  The strings are all strings of at most         *)
(* MaxTextLen characters over upper and lower case letters that spell      *)
(* stopwords, a digit, the hyphen, two kinds of white space and a          *)
(* punctuation mark.                                                       *)
(***************************************************************************)
MaxTextLen == 5

TextChars == {"A", "t", "o", "3", "-", " ", "\t", "!"}

TextPool == UNION {[1..n -> TextChars] : n \in 0..MaxTextLen}

InitText ==
    /\ pc = "idle"
    /\ input = [query |-> <<>>, includeAutocomplete |-> TRUE, maxKeywords |-> 1]
    /\ gsc = NoPromise
    /\ ac = NoPromise
    /\ gscRows = <<>>
    /\ autocompleteSeeds = <<>>
    /\ keywordMap = <<>>
    /\ keywords = <<>>
    /\ edges = <<>>
    /\ parent = <<>>
    /\ clusters = <<>>
    /\ result = <<>>
    /\ InitLimiter
    /\ NoInvocations
    /\ NoCrawl
    /\ call \in [fn : {"normalize", "tokenize"}, value : TextPool]
    /\ ret = <<>>

Returns(value) ==
    /\ ret' = Append(ret, value)
    /\ UNCHANGED limiterVars
    /\ UNCHANGED invocations
    /\ UNCHANGED crawl
    /\ UNCHANGED <<pc, input, gsc, ac, gscRows, autocompleteSeeds, keywordMap,
                   keywords, edges, parent, clusters, result, call>>

(* normalize(value) *)
CallNormalize ==
    /\ call.fn = "normalize"
    /\ ret = <<>>
    /\ Returns(normalize(call.value))

(* normalize of the string that normalize returned *)
CallNormalizeAgain ==
    /\ call.fn = "normalize"
    /\ Len(ret) = 1
    /\ Returns(normalize(ret[1]))

(* tokenize(value) *)
CallTokenize ==
    /\ call.fn = "tokenize"
    /\ ret = <<>>
    /\ Returns(tokenize(call.value))

NextText == CallNormalize \/ CallNormalizeAgain \/ CallTokenize

SpecText == InitText /\ [][NextText]_vars

(* ---- C25 ---- *)

(* only a-z, 0-9, hyphen and single spaces, none of them first or last *)
CleanText(s) ==
    /\ \A i \in 1..Len(s) : s[i] \in Range(LowerChars) \cup DigitChars \cup {"-", " "}
    /\ \A i \in 1..Len(s) - 1 : ~(s[i] = " " /\ s[i + 1] = " ")
    /\ s # <<>> => s[1] # " " /\ s[Len(s)] # " "

(* C25: normalize is idempotent, normalize(normalize(x)) = normalize(x); its
   result has only the characters a-z, 0-9, hyphen and single spaces, with
   no space first or last, and is the empty string for the empty string. *)
C25_NormalizeIsIdempotentAndClean ==
    call.fn = "normalize" =>
        /\ Len(ret) >= 1 => CleanText(ret[1])
        /\ Len(ret) >= 1 /\ call.value = <<>> => ret[1] = <<>>
        /\ Len(ret) = 2 => ret[2] = ret[1]

(* normalize has been applied twice to " A!\t 3" style input: upper case,
   punctuation, a run of mixed white space and a leading space *)
C25_Witness ==
    /\ call.fn = "normalize"
    /\ call.value = <<" ", "A", "\t", " ">>
    /\ Len(ret) = 2
    /\ ret[1] = <<"a">>

(* ---- C27 ---- *)

(* the positions where a word of s starts, and the word that starts there *)
WordStarts(s) == {i \in 1..Len(s) : s[i] # " " /\ (i = 1 \/ s[i - 1] = " ")}

WordAt(s, i) ==
    LET last == CHOOSE j \in i..Len(s) :
                    /\ \A k \in i..j : s[k] # " "
                    /\ j = Len(s) \/ s[j + 1] = " "
    IN  SubSeq(s, i, last)

(* tokens are words of s taken at increasing positions *)
InOrderOf(tokens, s) ==
    \E at \in [1..Len(tokens) -> WordStarts(s)] :
        /\ \A i \in 1..Len(tokens) : WordAt(s, at[i]) = tokens[i]
        /\ \A i \in 1..Len(tokens) - 1 : at[i] < at[i + 1]

(* C27: the result of tokenize has no stopword and no token of length 0 or
   1, and its tokens appear in the order in which they appear in the
   normalized string. *)
C27_TokensAreFilteredInOrder ==
    call.fn = "tokenize" /\ Len(ret) = 1 =>
        /\ \A i \in 1..Len(ret[1]) :
              /\ ret[1][i] \notin stopwords
              /\ Len(ret[1][i]) > 1
        /\ InOrderOf(ret[1], normalize(call.value))

(* tokenize of "tO oo": the stopword is dropped, the other word is kept *)
C27_Witness ==
    /\ call.fn = "tokenize"
    /\ call.value = <<"t", "o", " ", "o", "o">>
    /\ ret = << << <<"o", "o">> >> >>

(* ---- C26 ---- *)

AaBbCc == <<"a", "a", " ", "b", "b", " ", "c", "c">>

AaBbCcDd == <<"a", "a", " ", "b", "b", " ", "c", "c", " ", "d", "d">>

SharesPage(metricsA, metricsB) ==
    /\ Len(metricsA.pages) > 0
    /\ Len(metricsB.pages) > 0
    /\ \E i \in 1..Len(metricsA.pages) : Contains(metricsB.pages, metricsA.pages[i])

(* C26: the similarity decision is symmetric.  For the pair (a, b) that the
   loop has compared, the Jaccard index, the normalized Levenshtein
   distance, the shared-page signal, the similarity and the decision to
   link are the same when computed for (b, a), and the edge is recorded in
   both directions. *)
C26_SimilarityIsSymmetric ==
    SimilarityDone /\ Len(keywords) = 2 =>
        LET a == keywords[1]
            b == keywords[2]
            metricsA == MapGet(keywordMap, a)
            metricsB == MapGet(keywordMap, b)
        IN  /\ jaccard(metricsA.tokens, metricsB.tokens)
                  = jaccard(metricsB.tokens, metricsA.tokens)
            /\ levenshteinNorm(a, b) = levenshteinNorm(b, a)
            /\ SharesPage(metricsA, metricsB) <=> SharesPage(metricsB, metricsA)
            /\ PairSimilarity(metricsA, metricsB, a, b)
                  = PairSimilarity(metricsB, metricsA, b, a)
            /\ Adjacent(a, b) <=> RLeq(Rat(6, 10), PairSimilarity(metricsB, metricsA, b, a))
            /\ Adjacent(a, b) <=> Adjacent(b, a)

(* two keywords with token sets of different sizes, three tokens shared of
   four, compared in this order and linked *)
C26_Witness ==
    /\ SimilarityDone
    /\ keywords = <<AaBbCc, AaBbCcDd>>
    /\ jaccard(MapGet(keywordMap, AaBbCcDd).tokens, MapGet(keywordMap, AaBbCc).tokens)
          = Rat(3, 4)
    /\ Adjacent(AaBbCcDd, AaBbCc)

(***************************************************************************)
(* Two calls on inputs that differ in the pages alone.  The first call     *)
(* receives rows with any pages; the second call, made when the first has  *)
(* returned, receives the same rows with pages chosen anew, the same       *)
(* expansion terms and the same maxKeywords.                               *)
(***************************************************************************)
PageValues == {"", "/p1", "/p2"}

(* "ab cd" and "ab cd ef" share two tokens of three; "gh ij" shares none
   with either *)
PageQueryRows ==
    { Row(<<"a", "b", " ", "c", "d">>, "", 5, 100, Rat(1, 20), Rat(6, 1)),
      Row(<<"a", "b", " ", "c", "d", " ", "e", "f">>, "", 1, 40, Rat(1, 40), Rat(9, 1)),
      Row(<<"g", "h", " ", "i", "j">>, "", 2, 60, Rat(1, 30), Rat(8, 1)) }

(* nothing, or "gh ij kl" *)
PageSeedLists == { <<>>, << <<"g", "h", " ", "i", "j", " ", "k", "l">> >> }

(* the rows with row k sent to pages[k] *)
WithPages(rows, pages) == [k \in 1..Len(rows) |-> [rows[k] EXCEPT !.page = pages[k]]]

(* the first input: any rows, pages and expansion terms *)
FirstInput ==
    /\ LocalsOf(1).pc = "idle"
    /\ \E base \in DistinctSeqs(PageQueryRows, MaxRows), seeds \in PageSeedLists :
          \E pages \in [1..Len(base) -> PageValues] :
             StepOf(1, [LocalsOf(1) EXCEPT !.pc = "mergeRows",
                                           !.gscRows = WithPages(base, pages),
                                           !.autocompleteSeeds = seeds])

(* the second input: the rows of the first with other pages *)
SecondInput ==
    /\ LocalsOf(1).pc = "returned"
    /\ LocalsOf(2).pc = "idle"
    /\ \E pages \in [1..Len(LocalsOf(1).gscRows) -> PageValues] :
          StepOf(2, [LocalsOf(2) EXCEPT
                        !.pc = "mergeRows",
                        !.maxKeywords = LocalsOf(1).maxKeywords,
                        !.gscRows = WithPages(LocalsOf(1).gscRows, pages),
                        !.autocompleteSeeds = LocalsOf(1).autocompleteSeeds])

NextPages ==
    \/ FirstInput
    \/ SecondInput
    \/ \E i \in InvocationIds :
          \/ MergeRowsOf(i)
          \/ MergeSeedsOf(i)
          \/ SimilarityOf(i)
          \/ UnionOf(i)
          \/ MaterializeOf(i)
          \/ ReturnOf(i)

SpecPages == InitInterleaved /\ [][NextPages]_vars

(* ---- C28 ---- *)

Clustered(i) == After(i, {"aggregate", "returned"})

QueriesOf(rows) == [k \in 1..Len(rows) |-> rows[k].query]

PagesOfRows(rows) == [k \in 1..Len(rows) |-> rows[k].page]

SharedPageOf(i, a, b) ==
    /\ MapHas(invocations[i].keywordMap, a)
    /\ MapHas(invocations[i].keywordMap, b)
    /\ Range(MapGet(invocations[i].keywordMap, a).pages)
          \cap Range(MapGet(invocations[i].keywordMap, b).pages) # {}

(* C28: pages never influence cluster membership.  Two inputs with the same
   queries, expansion terms and maxKeywords and any pages give the same
   partition of the keywords into clusters: a shared page contributes 0.3,
   which is below the edge threshold 0.6. *)
C28_PagesDoNotChangeThePartition ==
    /\ Clustered(1) /\ Clustered(2) =>
          /\ QueriesOf(invocations[1].gscRows) = QueriesOf(invocations[2].gscRows)
          /\ invocations[1].keywords = invocations[2].keywords
          /\ PartitionOf(invocations[1].clusters) = PartitionOf(invocations[2].clusters)
    /\ \A i \in InvocationIds :
          After(i, {"union", "materialize", "aggregate", "returned"}) =>
             \A k \in 1..Len(invocations[i].edges) :
                \A n \in Range(invocations[i].edges[k].neighbours) :
                   RLeq(Rat(6, 10),
                        jaccard(tokenize(invocations[i].edges[k].node), tokenize(n)))
                   \/ RLeq(levenshteinNorm(invocations[i].edges[k].node, n), Rat(15, 100))

GhIj == <<"g", "h", " ", "i", "j">>

AbCd == <<"a", "b", " ", "c", "d">>

(* in the first input "ab cd" and "gh ij" land on the same page, in the
   second on different pages; in both "gh ij" is a cluster of its own *)
C28_Witness ==
    /\ Clustered(1) /\ Clustered(2)
    /\ PagesOfRows(invocations[1].gscRows) # PagesOfRows(invocations[2].gscRows)
    /\ SharedPageOf(1, AbCd, GhIj)
    /\ ~SharedPageOf(2, AbCd, GhIj)
    /\ <<GhIj>> \in Range(invocations[1].clusters)
    /\ <<GhIj>> \in Range(invocations[2].clusters)
    /\ Len(invocations[1].clusters) = 2

(* ---- C29 ---- *)

(* no row of Search Console has this keyword as its normalized query: it
   came from the expansion terms *)
ExpansionDerived(keyword) ==
    \A i \in 1..Len(gscRows) : normalize(gscRows[i].query) # keyword

(* C29: a returned cluster whose members all come from the expansion terms
   (no clicks, impressions, pages or samples) has rollup sums and averages
   0, a mapped page of type new, priority exactly 35, and exactly the
   recommendations to improve the meta title for its label and to add
   internal links. *)
C29_ExpansionOnlyCluster ==
    Returned =>
        \A c \in 1..Len(ResultClusters) :
            LET rec == ResultClusters[c]
            IN  (\A k \in Range(Members(rec)) : ExpansionDerived(k)) =>
                    /\ \A i \in 1..Len(rec.keywords) :
                          /\ rec.keywords[i].clicks = 0
                          /\ rec.keywords[i].impressions = 0
                          /\ rec.keywords[i].pages = <<>>
                    /\ rec.rollup.sumImpressions = 0
                    /\ rec.rollup.sumClicks = 0
                    /\ rec.rollup.avgCtr = RInt(0)
                    /\ rec.rollup.avgPosition = RInt(0)
                    /\ rec.mappedPage.type = "new"
                    /\ rec.priority = 35
                    /\ rec.recommendations = <<ImproveMessage(rec.label), LinksMessage>>

(* a result with a cluster of the two expansion terms "buy solar panels"
   and "buy solar panel", next to a cluster that came from rows *)
C29_Witness ==
    /\ Returned
    /\ \E c \in 1..Len(ResultClusters) :
          /\ Members(ResultClusters[c]) = <<BuySolarPanels, BuySolarPanel>>
          /\ \A k \in Range(Members(ResultClusters[c])) : ExpansionDerived(k)
          /\ ResultClusters[c].priority = 35
    /\ \E c \in 1..Len(ResultClusters) :
          \E k \in Range(Members(ResultClusters[c])) : ~ExpansionDerived(k)

(***************************************************************************)
(* consumeRateLimit called directly, with any weight of a small set, on    *)
(* two keys, while the clock advances.  response holds the last call: its  *)
(* key, weight and time, the bucket it found (the fresh bucket when the    *)
(* key had none) and the RateLimitResult it returned.                      *)
(***************************************************************************)
BucketKeys == {<<"tool", "a">>, <<"tool", "b">>}

(* the default weight, heavier calls, and a weight above the limit *)
Weights == {1, 3, 4, 11}

Consume(key, weight) ==
    LET found == IF MapHas(buckets, key) THEN MapGet(buckets, key)
                 ELSE [tokens |-> DEFAULT_LIMIT, updatedAt |-> now]
        rate == consumeRateLimit(key, weight, DEFAULT_LIMIT, DEFAULT_WINDOW_MS)
    IN  /\ buckets' = rate.buckets
        /\ response' = <<[key |-> key, weight |-> weight, at |-> now,
                          found |-> found, result |-> rate.result]>>
        /\ UNCHANGED <<now, executed>>
        /\ UNCHANGED clusterVars
        /\ UNCHANGED invocations
        /\ UNCHANGED crawl

NextBucket ==
    \/ \E step \in TickSteps : Tick(step)
    \/ \E key \in BucketKeys, weight \in Weights : Consume(key, weight)

SpecBucket == Init /\ [][NextBucket]_vars

(* ---- C30 ---- *)

(* the tokens of a bucket once the time since its last update is credited *)
TokensAfterRefill(bucket, at) ==
    LET credit == ((at - bucket.updatedAt) * DEFAULT_LIMIT) \div DEFAULT_WINDOW_MS
    IN  Min2(DEFAULT_LIMIT, bucket.tokens + credit)

(* C30: after any sequence of consumeRateLimit calls with weights >= 1 on a
   clock that never goes back, every bucket has 0 <= tokens <= limit; a
   rejected call never decreases the tokens of its bucket, an accepted call
   decreases them by exactly its weight after the refill, and the remaining
   it returns is the token count stored in the bucket. *)
C30_BucketStaysWithinLimit ==
    /\ \A i \in 1..Len(buckets) :
          /\ 0 <= buckets[i].value.tokens
          /\ buckets[i].value.tokens <= DEFAULT_LIMIT
          /\ buckets[i].value.updatedAt <= now
    /\ response # <<>> =>
          LET last == response[1]
              stored == MapGet(buckets, last.key).tokens
          IN  /\ last.weight >= 1
              /\ ~last.result.success =>
                    /\ stored >= last.found.tokens
                    /\ stored = TokensAfterRefill(last.found, last.at)
                    /\ stored < last.weight
              /\ last.result.success =>
                    stored = TokensAfterRefill(last.found, last.at) - last.weight
              /\ last.result.remaining = stored

(* a call of weight 3 is rejected by a bucket that was empty and has been
   credited two tokens since, while a second key has a bucket of its own *)
C30_Witness ==
    /\ response # <<>>
    /\ ~response[1].result.success
    /\ response[1].weight = 3
    /\ response[1].found.tokens = 0
    /\ MapGet(buckets, response[1].key).tokens = 2
    /\ response[1].result.remaining = 2
    /\ Len(buckets) = 2

=============================================================================
